---- MODULE Spec2Model ----
(***************************************************************************)
(* A model of matmul_explainer.py: the sign-class classification of        *)
(* matmul-like operations, the coverage filter, the grouping of positions  *)
(* and the summary.                                                        *)
(*                                                                         *)
(* Numbers: tensor values, counts and sums are integers (floats that are   *)
(* exactly representable, so the float arithmetic of the code is exact on  *)
(* them).  A threshold is kept doubled (threshold2 = 2 * threshold), since *)
(* the midpoint percentile of integers is a half-integer.  A confidence    *)
(* or completeness is a numerator over ConfDen / ComplDen.                 *)
(* Arrays are sequences, so slot k (0-based) of the code is index k + 1.   *)
(* Python's None is the empty sequence <<>>, a present value v is <<v>>.   *)
(***************************************************************************)
EXTENDS Integers, Sequences, FiniteSets, TLC

VARIABLES
    op,          \* the operation called last ("none" before any call)
    x,           \* first input tensor of a classify call (a matrix)
    y,           \* second input tensor of a classify call (a matrix)
    confidence,  \* numerator of the confidence argument
    thresholds,  \* the thresholds / threshold argument
    return_thresholds, \* the return_thresholds / return_threshold argument
    counts,      \* counts array at hand: positions x terms
    sums,        \* sums array at hand: positions x terms
    terms,       \* terms array at hand (<<>> is None, <<array>> otherwise)
    mask,        \* position mask argument (<<>> is None, <<array>> otherwise)
    completeness,\* numerator of the completeness argument
    max_groups,  \* max_groups argument of filter_groups (<<>> is None)
    out          \* what the call returned, or the error it raised

vars == <<op, x, y, confidence, thresholds, return_thresholds, counts, sums,
          terms, mask, completeness, max_groups, out>>

------------------------------------------------------------------------------
(* Bounds of the model *)

\* largest magnitude of an input tensor element
MaxVal == 2
\* confidence ranges over 0/ConfDen .. ConfDen/ConfDen
ConfDen == 2

None == <<>>
Some(v) == <<v>>

Vals == (-MaxVal)..MaxVal
Confidences == 0..ConfDen

------------------------------------------------------------------------------
(* Arithmetic and sequence helpers (numpy / tensorflow primitives) *)

Abs(v) == IF v < 0 THEN -v ELSE v
Max2(a, b) == IF a >= b THEN a ELSE b

RECURSIVE SeqSum(_)
SeqSum(s) == IF s = <<>> THEN 0 ELSE Head(s) + SeqSum(Tail(s))

RECURSIVE Flatten(_)
Flatten(m) == IF m = <<>> THEN <<>> ELSE Head(m) \o Flatten(Tail(m))

\* insert v into the ascending sequence s
RECURSIVE InsertAsc(_, _)
InsertAsc(v, s) ==
    IF s = <<>> THEN <<v>>
    ELSE IF v <= Head(s) THEN <<v>> \o s
    ELSE <<Head(s)>> \o InsertAsc(v, Tail(s))

\* tf.sort(..., direction='ASCENDING') of a flat tensor
RECURSIVE SortAsc(_)
SortAsc(s) == IF s = <<>> THEN <<>> ELSE InsertAsc(Head(s), SortAsc(Tail(s)))

BoolNum(b) == IF b THEN 1 ELSE 0

NumRows(m) == Len(m)
NumCols(m) == Len(m[1])

\* tf.cast(mask, tf.float32)
CastMask(m) == [i \in 1..NumRows(m) |-> [j \in 1..NumCols(m) |-> BoolNum(m[i][j])]]
\* the values as they are, whatever the mask
WhereMask_unmasked(m, v) == v

\* tf.where(mask, v, tf.zeros_like(v))
WhereMask(m, v) ==
    [i \in 1..NumRows(m) |-> [j \in 1..NumCols(m) |-> IF m[i][j] THEN v[i][j] ELSE 0]]

\* tf.linalg.matmul(a, b): a is n x k, b is k x m
MatMul(a, b) ==
    [i \in 1..NumRows(a) |-> [j \in 1..NumCols(b) |->
        SeqSum([k \in 1..NumRows(b) |-> a[i][k] * b[k][j]])]]

\* tf.math.multiply(a, b): elementwise, same shapes
Multiply(a, b) ==
    [i \in 1..NumRows(a) |-> [j \in 1..NumCols(a) |-> a[i][j] * b[i][j]]]

\* tf.tensordot(a, b, axes=1): contracts the last axis of a with the first of b
TensorDot1(a, b) ==
    [i \in 1..NumRows(a) |-> [j \in 1..NumCols(b) |->
        SeqSum([k \in 1..NumCols(a) |-> a[i][k] * b[k][j]])]]

\* width of the output of a 1-D convolution with stride 1
ConvWidth(w, kw, padding) == IF padding = "SAME" THEN w ELSE w - kw + 1
ConvPadLeft(kw, padding) == IF padding = "SAME" THEN (kw - 1) \div 2 ELSE 0

\* tf.nn.convolution(input, filters, strides=1, padding): one batch, one
\* channel in and out; the input's width axis is the row a[1], the kernel's
\* spatial axis is the column b[..][1].  A cross-correlation, zero padded.
Convolution(a, b, padding) ==
    LET w == NumCols(a)
        kw == NumRows(b)
        pl == ConvPadLeft(kw, padding)
        at(p) == IF p >= 1 /\ p <= w THEN a[1][p] ELSE 0
    IN <<[o \in 1..ConvWidth(w, kw, padding) |->
            SeqSum([k \in 1..kw |-> at(o + k - 1 - pl) * b[k][1]])]>>

------------------------------------------------------------------------------
(* Threshold derivation and sign classification *)

\* explicit threshold values a caller may pass
ExplicitThresholds == {0, MaxVal}

AbsAll(s) == [i \in 1..Len(s) |-> Abs(s[i])]

\* twice tfp.stats.percentile(v, 100 * (1 - cn/ConfDen), interpolation=
\* 'midpoint') over the flattened tensor v: the mean of the order statistics
\* at floor and ceil of (d - 1) * q / 100
\* the smallest value, whatever the confidence
Percentile2_min(v, cn) == LET s == SortAsc(v) IN s[1] + s[1]

\* the largest value, whatever the confidence
Percentile2_max(v, cn) == LET s == SortAsc(v) IN s[Len(s)] + s[Len(s)]

\* the percentile at 100 * confidence
Percentile2_reversed(v, cn) ==
    LET s == SortAsc(v)
        num == (Len(s) - 1) * cn
    IN s[(num \div ConfDen) + 1] + s[((num + ConfDen - 1) \div ConfDen) + 1]

Percentile2(v, cn) ==
    LET s == SortAsc(v)
        d == Len(s)
        num == (d - 1) * (ConfDen - cn)
        lower == num \div ConfDen
        higher == (num + ConfDen - 1) \div ConfDen
    IN s[lower + 1] + s[higher + 1]

\* classification_mask with a strict comparison for the positive class:
\* an element whose magnitude equals the threshold is in no class
classification_mask_strict(t, cn, threshold) ==
    LET threshold2 == IF threshold = None
                      THEN Percentile2(AbsAll(Flatten(t)), cn)
                      ELSE 2 * threshold[1]
        rows == 1..NumRows(t)
        cols == 1..NumCols(t)
        zero_mask == [i \in rows |-> [j \in cols |->
                        t[i][j] = 0 \/ 2 * Abs(t[i][j]) < threshold2]]
        pos_mask == [i \in rows |-> [j \in cols |->
                        t[i][j] > 0 /\ 2 * Abs(t[i][j]) > threshold2]]
        neg_mask == [i \in rows |-> [j \in cols |->
                        t[i][j] < 0 /\ ~zero_mask[i][j]]]
    IN [pos_mask |-> pos_mask, zero_mask |-> zero_mask, neg_mask |-> neg_mask,
        threshold2 |-> threshold2]

\* classification_mask whose negative class forgets the near-zero exclusion
classification_mask_overlap(t, cn, threshold) ==
    LET threshold2 == IF threshold = None
                      THEN Percentile2(AbsAll(Flatten(t)), cn)
                      ELSE 2 * threshold[1]
        rows == 1..NumRows(t)
        cols == 1..NumCols(t)
        zero_mask == [i \in rows |-> [j \in cols |->
                        t[i][j] = 0 \/ 2 * Abs(t[i][j]) < threshold2]]
        pos_mask == [i \in rows |-> [j \in cols |->
                        t[i][j] > 0 /\ ~zero_mask[i][j]]]
        neg_mask == [i \in rows |-> [j \in cols |-> t[i][j] < 0]]
    IN [pos_mask |-> pos_mask, zero_mask |-> zero_mask, neg_mask |-> neg_mask,
        threshold2 |-> threshold2]

\* classification_mask(x, confidence, threshold): threshold is None or
\* Some(t); the threshold returned is doubled
classification_mask(t, cn, threshold) ==
    LET threshold2 == IF threshold = None
                      THEN Percentile2(AbsAll(Flatten(t)), cn)
                      ELSE 2 * threshold[1]
        rows == 1..NumRows(t)
        cols == 1..NumCols(t)
        zero_mask == [i \in rows |-> [j \in cols |->
                        t[i][j] = 0 \/ 2 * Abs(t[i][j]) < threshold2]]
        pos_mask == [i \in rows |-> [j \in cols |->
                        t[i][j] > 0 /\ ~zero_mask[i][j]]]
        neg_mask == [i \in rows |-> [j \in cols |->
                        t[i][j] < 0 /\ ~zero_mask[i][j]]]
    IN [pos_mask |-> pos_mask, zero_mask |-> zero_mask, neg_mask |-> neg_mask,
        threshold2 |-> threshold2]

\* the thresholds argument: None, a single float, or a sequence of items
\* that are each None or Some(float)
ThrNone == [kind |-> "none", items |-> <<>>]
ThrFloat(t) == [kind |-> "float", items |-> <<Some(t)>>]
ThrSeq(s) == [kind |-> "seq", items |-> s]

\* a parse that takes the first two items of any sequence, None where missing
_parse_thresholds_arg_padded(th) ==
    IF th.kind = "none" THEN [status |-> "ok", t1 |-> None, t2 |-> None]
    ELSE IF th.kind = "float" THEN [status |-> "TypeError", t1 |-> None, t2 |-> None]
    ELSE [status |-> "ok",
          t1 |-> IF Len(th.items) >= 1 THEN th.items[1] ELSE None,
          t2 |-> IF Len(th.items) >= 2 THEN th.items[2] ELSE None]

\* _parse_thresholds_arg(thresholds): "t1, t2 = thresholds" unpacks a
\* sequence of length 2, raises ValueError (caught and re-raised) on any
\* other length and TypeError (not caught) on a value that is not iterable
_parse_thresholds_arg(th) ==
    IF th.kind = "none" THEN [status |-> "ok", t1 |-> None, t2 |-> None]
    ELSE IF th.kind = "float" THEN [status |-> "TypeError", t1 |-> None, t2 |-> None]
    ELSE IF Len(th.items) # 2 THEN [status |-> "ValueError", t1 |-> None, t2 |-> None]
    ELSE [status |-> "ok", t1 |-> th.items[1], t2 |-> th.items[2]]

------------------------------------------------------------------------------
(* The classify family *)

TermsOne == <<"P", "Z", "N">>
TermsTwo == <<"PP", "PZ", "PN", "ZP", "ZZ", "ZN", "NP", "NZ", "NN">>

\* np.stack(list, axis=-1) of equally shaped matrices
StackLast(list) ==
    [i \in 1..NumRows(list[1]) |-> [j \in 1..NumCols(list[1]) |->
        [k \in 1..Len(list) |-> list[k][i][j]]]]

\* the numeric primitive of a two-input classify function
Primitive(prim, a, b) ==
    CASE prim = "matmul" -> MatMul(a, b)
      [] prim = "multiply" -> Multiply(a, b)
      [] prim = "tensordot" -> TensorDot1(a, b)
      [] prim = "conv_VALID" -> Convolution(a, b, "VALID")
      [] prim = "conv_SAME" -> Convolution(a, b, "SAME")

\* the appends in another order: PZ and ZP exchanged
CombineTermsSwapped(prim, xp, xz, xn, yp, yz, yn) ==
    << Primitive(prim, xp, yp), Primitive(prim, xz, yp), Primitive(prim, xp, yn),
       Primitive(prim, xp, yz), Primitive(prim, xz, yz), Primitive(prim, xz, yn),
       Primitive(prim, xn, yp), Primitive(prim, xn, yz), Primitive(prim, xn, yn) >>

\* the nine appends of a two-input classify function, in the order of the code
CombineTerms(prim, xp, xz, xn, yp, yz, yn) ==
    << Primitive(prim, xp, yp), Primitive(prim, xp, yz), Primitive(prim, xp, yn),
       Primitive(prim, xz, yp), Primitive(prim, xz, yz), Primitive(prim, xz, yn),
       Primitive(prim, xn, yp), Primitive(prim, xn, yz), Primitive(prim, xn, yn) >>

Raised(e) == [status |-> e, counts |-> <<>>, sums |-> <<>>, thresholds |-> None]

\* the body the two-input classify functions share, up to the primitive
ClassifyTwo(prim, a, b, cn, th, ret) ==
    LET parsed == _parse_thresholds_arg(th)
        xm == classification_mask(a, cn, parsed.t1)
        ym == classification_mask(b, cn, parsed.t2)
        cnts == CombineTerms(prim,
                    CastMask(xm.pos_mask), CastMask(xm.zero_mask), CastMask(xm.neg_mask),
                    CastMask(ym.pos_mask), CastMask(ym.zero_mask), CastMask(ym.neg_mask))
        sms == CombineTerms(prim,
                    WhereMask(xm.pos_mask, a), WhereMask(xm.zero_mask, a), WhereMask(xm.neg_mask, a),
                    WhereMask(ym.pos_mask, b), WhereMask(ym.zero_mask, b), WhereMask(ym.neg_mask, b))
    IN IF parsed.status # "ok" THEN Raised(parsed.status)
       \* x_threshold.numpy(): a threshold that was passed in is still the
       \* float of the caller, which has no such method
       ELSE IF ret /\ (parsed.t1 # None \/ parsed.t2 # None) THEN Raised("AttributeError")
       ELSE [status |-> "ok", counts |-> StackLast(cnts), sums |-> StackLast(sms),
             thresholds |-> IF ret THEN Some(<<xm.threshold2, ym.threshold2>>) ELSE None]

matmul_classify(a, b, cn, th, ret) == ClassifyTwo("matmul", a, b, cn, th, ret)

multiply_classify(a, b, cn, th, ret) == ClassifyTwo("multiply", a, b, cn, th, ret)

tensordot_classify(a, b, cn, th, ret) == ClassifyTwo("tensordot", a, b, cn, th, ret)

conv_classify(a, b, padding, cn, th, ret) ==
    ClassifyTwo("conv_" \o padding, a, b, cn, th, ret)

\* tensor_classify(x, confidence, threshold, return_threshold)
tensor_classify(a, cn, threshold, ret) ==
    LET m == classification_mask(a, cn, threshold)
        cnts == << CastMask(m.pos_mask), CastMask(m.zero_mask), CastMask(m.neg_mask) >>
        sms == << WhereMask(m.pos_mask, a), WhereMask(m.zero_mask, a), WhereMask(m.neg_mask, a) >>
    IN \* threshold.numpy() on the float of the caller
       IF ret /\ threshold # None THEN Raised("AttributeError")
       ELSE [status |-> "ok", counts |-> StackLast(cnts), sums |-> StackLast(sms),
             thresholds |-> IF ret THEN Some(<<m.threshold2>>) ELSE None]

------------------------------------------------------------------------------
(* Specification of the classify family: one call of one classify function *)
(* on inputs drawn from bounded sets.  x is a 1 x 2 matrix and y a 2 x 1   *)
(* matrix (passed transposed to the elementwise product, as the filter of  *)
(* width 2 to the convolution), or the 1 x 1 example of the documentation. *)

Transpose(m) == [j \in 1..NumCols(m) |-> [i \in 1..NumRows(m) |-> m[i][j]]]

InnerAxis == {1, 2}
\* the second input takes a large negative value, zero or a small positive one
YVals == {-MaxVal, 0, 1}
RowInputs == {<<r>> : r \in [InnerAxis -> Vals]}
ColInputs == {Transpose(<<r>>) : r \in [InnerAxis -> YVals]}
\* the example: [5.0] and [-5.0]
ExampleX == <<<<5>>>>
ExampleY == <<<<-5>>>>
ClassifyInputs == (RowInputs \X ColInputs) \cup {<<ExampleX, ExampleY>>}

OptThresholds == {None} \cup {Some(t) : t \in ExplicitThresholds}
ThresholdPairs == {ThrSeq(<<a, b>>) : a \in OptThresholds, b \in OptThresholds}
ExplicitPairs == {ThrSeq(<<Some(a), Some(b)>>) : a \in ExplicitThresholds, b \in ExplicitThresholds}
\* a bare float, and sequences of length 0, 1 and 3
OtherThresholds ==
    {ThrFloat(t) : t \in ExplicitThresholds}
    \cup {ThrSeq(<<>>), ThrSeq(<<Some(0)>>), ThrSeq(<<Some(0), None, Some(0)>>)}

\* the (confidence, thresholds, return_thresholds) arguments of a call: the
\* confidence varies where a threshold is derived from it
CallArgs ==
    {[cn |-> c, th |-> ThrNone, ret |-> r] : c \in Confidences, r \in BOOLEAN}
    \cup {[cn |-> c, th |-> t, ret |-> r] :
            c \in Confidences, t \in ThresholdPairs \ ExplicitPairs, r \in BOOLEAN}
    \cup {[cn |-> ConfDen, th |-> t, ret |-> r] : t \in ExplicitPairs, r \in BOOLEAN}
    \cup {[cn |-> ConfDen, th |-> t, ret |-> FALSE] : t \in OtherThresholds}

TensorCallArgs ==
    {[cn |-> c, th |-> None, ret |-> r] : c \in Confidences, r \in BOOLEAN}
    \cup {[cn |-> ConfDen, th |-> Some(t), ret |-> r] : t \in ExplicitThresholds, r \in BOOLEAN}

Unused == <<>>

Idle == op = "none"

ClassifyFrame ==
    UNCHANGED <<x, y, counts, sums, terms, mask, completeness, max_groups>>

MatmulClassify ==
    /\ Idle
    /\ \E c \in CallArgs :
        /\ op' = "matmul_classify"
        /\ confidence' = c.cn
        /\ thresholds' = c.th
        /\ return_thresholds' = c.ret
        /\ out' = matmul_classify(x, y, c.cn, c.th, c.ret)
    /\ ClassifyFrame

MultiplyClassify ==
    /\ Idle
    /\ \E c \in CallArgs :
        /\ op' = "multiply_classify"
        /\ confidence' = c.cn
        /\ thresholds' = c.th
        /\ return_thresholds' = c.ret
        /\ out' = multiply_classify(x, Transpose(y), c.cn, c.th, c.ret)
    /\ ClassifyFrame

TensordotClassify ==
    /\ Idle
    /\ \E c \in CallArgs :
        /\ op' = "tensordot_classify"
        /\ confidence' = c.cn
        /\ thresholds' = c.th
        /\ return_thresholds' = c.ret
        /\ out' = tensordot_classify(x, y, c.cn, c.th, c.ret)
    /\ ClassifyFrame

ConvClassify ==
    /\ Idle
    /\ \E c \in CallArgs, padding \in {"VALID", "SAME"} :
        /\ op' = "conv_classify_" \o padding
        /\ confidence' = c.cn
        /\ thresholds' = c.th
        /\ return_thresholds' = c.ret
        /\ out' = conv_classify(x, y, padding, c.cn, c.th, c.ret)
    /\ ClassifyFrame

TensorClassify ==
    /\ Idle
    /\ \E c \in TensorCallArgs :
        /\ op' = "tensor_classify"
        /\ confidence' = c.cn
        /\ thresholds' = c.th
        /\ return_thresholds' = c.ret
        /\ out' = tensor_classify(x, c.cn, c.th, c.ret)
    /\ ClassifyFrame

ClassificationMask ==
    /\ Idle
    /\ \E c \in TensorCallArgs :
        /\ op' = "classification_mask"
        /\ confidence' = c.cn
        /\ thresholds' = c.th
        /\ return_thresholds' = FALSE
        /\ out' = classification_mask(x, c.cn, c.th)
    /\ ClassifyFrame

Init ==
    /\ op = "none"
    /\ \E in \in ClassifyInputs : x = in[1] /\ y = in[2]
    /\ confidence = 0
    /\ thresholds = Unused
    /\ return_thresholds = FALSE
    /\ counts = Unused
    /\ sums = Unused
    /\ terms = Unused
    /\ mask = Unused
    /\ completeness = 0
    /\ max_groups = Unused
    /\ out = Unused

Next ==
    \/ MatmulClassify
    \/ MultiplyClassify
    \/ TensordotClassify
    \/ ConvClassify
    \/ TensorClassify
    \/ ClassificationMask

Spec == Init /\ [][Next]_vars

------------------------------------------------------------------------------
(* Claims about the classify family, checked under Spec *)

TwoInputOps == {"matmul_classify", "multiply_classify", "tensordot_classify",
                "conv_classify_VALID", "conv_classify_SAME"}
ClassifyOps == TwoInputOps \cup {"tensor_classify"}

Returned == op \in ClassifyOps /\ out.status = "ok"

\* the value of the unclassified operation on the inputs of the call
Unclassified ==
    CASE op = "matmul_classify" -> MatMul(x, y)
      [] op = "multiply_classify" -> Multiply(x, Transpose(y))
      [] op = "tensordot_classify" -> TensorDot1(x, y)
      [] op = "conv_classify_VALID" -> Convolution(x, y, "VALID")
      [] op = "conv_classify_SAME" -> Convolution(x, y, "SAME")
      [] op = "tensor_classify" -> x

SameShape(a, b) ==
    /\ Len(a) = Len(b)
    /\ \A i \in 1..Len(a) : Len(a[i]) = Len(b[i])

\* C1: Conservation.  Whenever a classify function returns, at every output
\* position the entries of sums along the last axis (9, or 3 for
\* tensor_classify) add up to the value of the unclassified operation (matmul,
\* elementwise product, tensordot, convolution; x itself for tensor_classify)
\* at that position.
C1_Conservation ==
    Returned =>
        /\ SameShape(out.sums, Unclassified)
        /\ \A i \in 1..Len(out.sums) : \A j \in 1..Len(out.sums[i]) :
            /\ Len(out.sums[i][j]) = IF op = "tensor_classify" THEN 3 ELSE 9
            /\ SeqSum(out.sums[i][j]) = Unclassified[i][j]

NonZeroSlots(row) == {k \in 1..Len(row) : row[k] # 0}

\* a matmul whose value is the sum of two different nonzero terms, one of
\* them from a near-zero class
C1_Witness ==
    /\ op = "matmul_classify"
    /\ out.status = "ok"
    /\ Cardinality(NonZeroSlots(out.sums[1][1])) = 2
    /\ out.sums[1][1][2] # 0
    /\ out.sums[1][1][9] # 0

\* C2: Partition completeness.  classification_mask sets exactly one of
\* pos_mask, zero_mask, neg_mask for every element, whatever the threshold
\* (derived or explicit); and every count a classify function returns is >= 0.
C2_Partition ==
    /\ op = "classification_mask" =>
        \A i \in 1..NumRows(x) : \A j \in 1..NumCols(x) :
            BoolNum(out.pos_mask[i][j]) + BoolNum(out.zero_mask[i][j])
                + BoolNum(out.neg_mask[i][j]) = 1
    /\ Returned =>
        \A i \in 1..Len(out.counts) : \A j \in 1..Len(out.counts[i]) :
            \A k \in 1..Len(out.counts[i][j]) : out.counts[i][j][k] >= 0

\* a negative element under the threshold, next to one at the threshold
C2_Witness ==
    /\ op = "classification_mask"
    /\ thresholds = None
    /\ x[1][1] < 0
    /\ out.zero_mask[1][1]
    /\ out.pos_mask[1][2]

\* the threshold (doubled) a call uses for one input
UsedThreshold2(t, item, cn) ==
    IF item = None THEN Percentile2(AbsAll(Flatten(t)), cn) ELSE 2 * item[1]
ItemOf(th, n) == IF th.kind = "none" THEN None ELSE th.items[n]

\* sign class of a value: 0 is P, 1 is Z, 2 is N
SignClass(v, thr2) ==
    IF v = 0 \/ 2 * Abs(v) < thr2 THEN 1 ELSE IF v > 0 THEN 0 ELSE 2

\* the inner indices m at which x[i,m] and y[m,j] are in the classes of slot k
SlotMembers(i, j, k) ==
    LET tx == UsedThreshold2(x, ItemOf(thresholds, 1), confidence)
        ty == UsedThreshold2(y, ItemOf(thresholds, 2), confidence)
    IN {m \in 1..NumCols(x) :
            /\ SignClass(x[i][m], tx) = k \div 3
            /\ SignClass(y[m][j], ty) = k % 3}

\* C3: Canonical stacking order.  In the output of matmul_classify, slot k
\* (0..8) of counts[i,j,:] is the number of inner indices m with x[i,m] in
\* class k div 3 and y[m,j] in class k mod 3 (P, Z, N), and sums[i,j,k] is
\* the sum of x[i,m]*y[m,j] over those m.  [5.0] times [-5.0] with
\* confidence 1.0 gives count 1 and sum -25 in the PN slot and zero elsewhere.
C3_StackingOrder ==
    (op = "matmul_classify" /\ out.status = "ok") =>
        /\ \A i \in 1..NumRows(x) : \A j \in 1..NumCols(y) : \A k \in 0..8 :
            /\ out.counts[i][j][k + 1] = Cardinality(SlotMembers(i, j, k))
            /\ out.sums[i][j][k + 1] =
                 SeqSum([m \in 1..NumCols(x) |->
                    IF m \in SlotMembers(i, j, k) THEN x[i][m] * y[m][j] ELSE 0])
        /\ (x = ExampleX /\ y = ExampleY /\ confidence = ConfDen /\ thresholds = ThrNone) =>
            /\ out.counts = <<<< <<0, 0, 1, 0, 0, 0, 0, 0, 0>> >>>>
            /\ out.sums = <<<< <<0, 0, -25, 0, 0, 0, 0, 0, 0>> >>>>

\* the example call, and its result in the PN slot
C3_Witness ==
    /\ op = "matmul_classify"
    /\ x = ExampleX
    /\ y = ExampleY
    /\ confidence = ConfDen
    /\ thresholds = ThrNone
    /\ out.status = "ok"
    /\ out.counts[1][1][3] = 1
    /\ out.sums[1][1][3] = -25

\* the call of the same function with thresholds=[t, t]
PairCall(t, ret) ==
    CASE op = "matmul_classify" -> matmul_classify(x, y, confidence, ThrSeq(<<t, t>>), ret)
      [] op = "multiply_classify" ->
            multiply_classify(x, Transpose(y), confidence, ThrSeq(<<t, t>>), ret)
      [] op = "tensordot_classify" ->
            tensordot_classify(x, y, confidence, ThrSeq(<<t, t>>), ret)
      [] op = "conv_classify_VALID" ->
            conv_classify(x, y, "VALID", confidence, ThrSeq(<<t, t>>), ret)
      [] op = "conv_classify_SAME" ->
            conv_classify(x, y, "SAME", confidence, ThrSeq(<<t, t>>), ret)

\* C10: a thresholds argument that is a single float is accepted by every
\* two-input classify function and used as the threshold of both inputs: the
\* result is that of thresholds=[t, t].
C10_SingleFloatAccepted ==
    (op \in TwoInputOps /\ thresholds.kind = "float") =>
        /\ out.status = "ok"
        /\ out = PairCall(thresholds.items[1], FALSE)

\* the number of inner indices whose x (y) element is in class cls,
\* from the counts of a matmul or tensordot at the one output position
ClassTotalX(cls) ==
    SeqSum([k \in 1..9 |-> IF (k - 1) \div 3 = cls THEN out.counts[1][1][k] ELSE 0])
ClassTotalY(cls) ==
    SeqSum([k \in 1..9 |-> IF (k - 1) % 3 = cls THEN out.counts[1][1][k] ELSE 0])

DerivedThreshold2(t) == Percentile2(AbsAll(Flatten(t)), confidence)

\* C11: a thresholds sequence of a length other than 2 makes every
\* two-input classify function fail with ValueError and produce no result;
\* a sequence of length 2 of floats or None never fails at this step, and a
\* None element means the threshold of that input is derived from confidence.
C11_ThresholdsLength ==
    (op \in TwoInputOps /\ thresholds.kind = "seq") =>
        /\ Len(thresholds.items) # 2 => out = Raised("ValueError")
        /\ Len(thresholds.items) = 2 =>
            /\ out.status \notin {"ValueError", "TypeError"}
            /\ (out.status = "ok" /\ return_thresholds) =>
                  out.thresholds = Some(<<DerivedThreshold2(x), DerivedThreshold2(y)>>)
            /\ (out.status = "ok" /\ op \in {"matmul_classify", "tensordot_classify"}) =>
                  \A cls \in 0..2 :
                      /\ thresholds.items[1] = None =>
                            ClassTotalX(cls) = Cardinality({m \in 1..NumCols(x) :
                                SignClass(x[1][m], DerivedThreshold2(x)) = cls})
                      /\ thresholds.items[2] = None =>
                            ClassTotalY(cls) = Cardinality({m \in 1..NumRows(y) :
                                SignClass(y[m][1], DerivedThreshold2(y)) = cls})

\* a sequence of three items is refused
C11_Witness ==
    /\ op = "multiply_classify"
    /\ thresholds.kind = "seq"
    /\ Len(thresholds.items) = 3
    /\ out.status = "ValueError"

MaxAbs(t) == LET s == SortAsc(AbsAll(Flatten(t))) IN s[Len(s)]
MinAbs(t) == SortAsc(AbsAll(Flatten(t)))[1]

MaskCall(cn) == op = "classification_mask" /\ thresholds = None /\ confidence = cn

\* C12 as stated: with confidence 0 and no explicit threshold the derived
\* threshold is the maximum of abs(x) and every element is Near-Zero.
C12_ConfidenceZeroAllNearZero ==
    MaskCall(0) =>
        /\ out.threshold2 = 2 * MaxAbs(x)
        /\ \A i \in 1..NumRows(x) : \A j \in 1..NumCols(x) :
              out.zero_mask[i][j] /\ ~out.pos_mask[i][j] /\ ~out.neg_mask[i][j]

\* C12 (amended): with confidence 0 and no explicit threshold the derived
\* threshold is the maximum of abs(x); an element is Near-Zero if and only
\* if it is 0 or its magnitude is below that maximum, and a nonzero element
\* of maximal magnitude is P when positive and N when negative.
C12_ConfidenceZero ==
    MaskCall(0) =>
        /\ out.threshold2 = 2 * MaxAbs(x)
        /\ \A i \in 1..NumRows(x) : \A j \in 1..NumCols(x) :
              /\ out.zero_mask[i][j] <=> (x[i][j] = 0 \/ Abs(x[i][j]) < MaxAbs(x))
              /\ out.pos_mask[i][j] <=> (x[i][j] > 0 /\ Abs(x[i][j]) = MaxAbs(x))
              /\ out.neg_mask[i][j] <=> (x[i][j] < 0 /\ Abs(x[i][j]) = MaxAbs(x))

\* a smaller nonzero element is Near-Zero next to the largest, which is P
C12_Witness ==
    /\ MaskCall(0)
    /\ NumCols(x) = 2
    /\ x[1][1] # 0 /\ out.zero_mask[1][1]
    /\ out.pos_mask[1][2]

\* C13: with confidence 1 and no explicit threshold the derived threshold
\* is the minimum of abs(x); an element is Near-Zero if and only if it is
\* exactly 0, and a nonzero element is P when positive and N when negative.
C13_ConfidenceOne ==
    MaskCall(ConfDen) =>
        /\ out.threshold2 = 2 * MinAbs(x)
        /\ \A i \in 1..NumRows(x) : \A j \in 1..NumCols(x) :
              /\ out.zero_mask[i][j] <=> x[i][j] = 0
              /\ out.pos_mask[i][j] <=> x[i][j] > 0
              /\ out.neg_mask[i][j] <=> x[i][j] < 0

\* the element of least magnitude is P, a larger one is N
C13_Witness ==
    /\ MaskCall(ConfDen)
    /\ NumCols(x) = 2
    /\ x[1][1] > 0 /\ x[1][2] < 0 /\ Abs(x[1][1]) < Abs(x[1][2])
    /\ out.pos_mask[1][1] /\ out.neg_mask[1][2]

\* the number of elements a mask marks
MaskCount(m) == SeqSum(Flatten(CastMask(m)))

\* C14 as stated: for confidences c1 <= c2 the number of Near-Zero elements
\* at c2 is not smaller than at c1.
C14_NearZeroGrowsWithConfidence ==
    (op = "classification_mask" /\ thresholds = None) =>
        \A c1 \in Confidences :
            c1 <= confidence =>
                MaskCount(out.zero_mask) >= MaskCount(classification_mask(x, c1, None).zero_mask)

\* C14 (amended): for confidences c1 <= c2 the number of Near-Zero elements
\* at c2 is not larger than at c1: raising the confidence never adds
\* Near-Zero elements.
C14_NearZeroShrinksWithConfidence ==
    (op = "classification_mask" /\ thresholds = None) =>
        \A c1 \in Confidences :
            c1 <= confidence =>
                MaskCount(out.zero_mask) <= MaskCount(classification_mask(x, c1, None).zero_mask)

\* at the highest confidence nothing is Near-Zero, at a lower one something is
C14_Witness ==
    /\ MaskCall(ConfDen)
    /\ MaskCount(out.zero_mask) = 0
    /\ \E c1 \in Confidences :
          c1 < confidence /\ MaskCount(classification_mask(x, c1, None).zero_mask) > 0

\* the thresholds (doubled) a call with return_thresholds has to report
ReportedThresholds ==
    IF op = "tensor_classify" THEN <<UsedThreshold2(x, thresholds, confidence)>>
    ELSE <<UsedThreshold2(x, ItemOf(thresholds, 1), confidence),
           UsedThreshold2(y, ItemOf(thresholds, 2), confidence)>>

WellFormedThresholds ==
    \/ op = "tensor_classify"
    \/ thresholds.kind = "none"
    \/ thresholds.kind = "seq" /\ Len(thresholds.items) = 2

\* C15: a classify function called with return_thresholds=True succeeds and
\* reports, for an input with an explicit threshold, exactly the supplied
\* value, and for an input whose threshold is None the value derived from
\* confidence.
C15_ExplicitThresholdsReturned ==
    (op \in ClassifyOps /\ return_thresholds /\ WellFormedThresholds) =>
        /\ out.status = "ok"
        /\ out.thresholds = Some(ReportedThresholds)

------------------------------------------------------------------------------
(* Sorting.  np.argsort with the default kind is not stable: among equal   *)
(* keys any order may come out, so an argsort is every permutation that    *)
(* sorts the keys.                                                         *)

PermSeqs(n) == {p \in [1..n -> 1..n] : \A i, j \in 1..n : p[i] = p[j] => i = j}

\* the results np.argsort(keys) may return
SortOrders(keys) ==
    {p \in PermSeqs(Len(keys)) : \A i \in 1..(Len(keys) - 1) : keys[p[i]] <= keys[p[i + 1]]}

\* np.take_along_axis(s, p, axis=-1) on one position
TakeAlong(s, p) == [i \in 1..Len(p) |-> s[p[i]]]
\* the order as it is, without [::-1]
NoFlip(s) == s

\* np.flip(s, axis=-1)
Flip(s) == [i \in 1..Len(s) |-> s[Len(s) + 1 - i]]
\* np.cumsum(s, axis=-1)
CumSum(s) == [i \in 1..Len(s) |-> SeqSum(SubSeq(s, 1, i))]
Negated(s) == [i \in 1..Len(s) |-> -s[i]]
PosPart(s) == [i \in 1..Len(s) |-> IF s[i] > 0 THEN s[i] ELSE 0]
NegPart(s) == [i \in 1..Len(s) |-> IF s[i] < 0 THEN s[i] ELSE 0]

\* the order of strings: by code point, '-' < 'N' < 'P' < 'Z', a shorter
\* string before its extensions
CharRank(c) == CASE c = "-" -> 1 [] c = "N" -> 2 [] c = "P" -> 3 [] c = "Z" -> 4
Spell(l) ==
    CASE l = "P" -> <<"P">> [] l = "Z" -> <<"Z">> [] l = "N" -> <<"N">>
      [] l = "--" -> <<"-", "-">>
      [] l = "PP" -> <<"P", "P">> [] l = "PZ" -> <<"P", "Z">> [] l = "PN" -> <<"P", "N">>
      [] l = "ZP" -> <<"Z", "P">> [] l = "ZZ" -> <<"Z", "Z">> [] l = "ZN" -> <<"Z", "N">>
      [] l = "NP" -> <<"N", "P">> [] l = "NZ" -> <<"N", "Z">> [] l = "NN" -> <<"N", "N">>
LabelKey(l) ==
    LET s == Spell(l)
    IN 5 * CharRank(s[1]) + (IF Len(s) > 1 THEN CharRank(s[2]) ELSE 0)
LabelKeys(row) == [i \in 1..Len(row) |-> LabelKey(row[i])]

------------------------------------------------------------------------------
(* classify_terms and the coverage filter.  An array is a sequence of      *)
(* positions (the flattened value shape), each a sequence of T entries.    *)

\* completeness ranges over 0/ComplDen .. ComplDen/ComplDen
ComplDen == 4
Completenesses == 0..ComplDen

\* a term list for every last dimension: the two-input list unless it is 3
classify_terms_default(channels) ==
    IF channels = 3 THEN [status |-> "ok", terms |-> TermsOne]
    ELSE [status |-> "ok", terms |-> TermsTwo]

\* classify_terms(example): the term list for the last dimension of example
classify_terms(channels) ==
    IF channels = 3 THEN [status |-> "ok", terms |-> TermsOne]
    ELSE IF channels = 9 THEN [status |-> "ok", terms |-> TermsTwo]
    ELSE [status |-> "ValueError", terms |-> <<>>]

\* one position of (counts, sums, terms, masks), sorted together
FilterRow(c, s, t, m) == [counts |-> c, sums |-> s, terms |-> t, masks |-> m]

\* The sums are floating-point numbers.  A value is kept to MantissaBits
\* significant bits and an addition rounds its result to the nearest such
\* value, a tie to the even one; the values here are whole numbers, so
\* sums below 2^MantissaBits are exact.
MantissaBits == 4

\* the spacing of the floating-point values around n >= 0
RECURSIVE Ulp(_)
Ulp(n) == IF n < 2 ^ MantissaBits THEN 1 ELSE 2 * Ulp(n \div 2)

RoundNat(n) ==
    LET u == Ulp(n)
        q == n \div u
        r == n % u
    IN IF 2 * r > u \/ (2 * r = u /\ q % 2 = 1) THEN (q + 1) * u ELSE q * u

Round(v) == IF v < 0 THEN -RoundNat(-v) ELSE RoundNat(v)

\* np.sum over the terms of one position: added one by one from the first
RECURSIVE FloatSum(_)
FloatSum(s) ==
    IF s = <<>> THEN 0 ELSE Round(FloatSum(SubSeq(s, 1, Len(s) - 1)) + s[Len(s)])

\* np.cumsum(s, axis=-1) of floating-point values
FloatCumSum(s) == [i \in 1..Len(s) |-> FloatSum(SubSeq(s, 1, i))]

\* a sum phase that wants the margin to be above the threshold
_partial_filter_by_sum_strict(row, cn, p) ==
    LET abs_range == Max2(FloatSum(PosPart(row.sums)), Abs(FloatSum(NegPart(row.sums))))
        s1 == TakeAlong(row.sums, p)
        m1 == TakeAlong(row.masks, p)
        pos_margin_sums == FloatCumSum(PosPart(s1))
        neg_margin_sums == FloatCumSum(NegPart(s1))
        m2 == [i \in 1..Len(s1) |->
                  \/ Max2(pos_margin_sums[i], Abs(neg_margin_sums[i])) * ComplDen
                        > abs_range * (ComplDen - cn)
                  \/ m1[i]]
    IN FilterRow(Flip(TakeAlong(row.counts, p)), Flip(s1), Flip(TakeAlong(row.terms, p)),
                 Flip(m2))

\* _partial_filter_by_sum on one position; p is the argsort of abs(sums)
_partial_filter_by_sum(row, cn, p) ==
    LET pos_range == FloatSum(PosPart(row.sums))
        neg_range == Abs(FloatSum(NegPart(row.sums)))
        abs_range == Max2(pos_range, neg_range)
        c1 == TakeAlong(row.counts, p)
        s1 == TakeAlong(row.sums, p)
        t1 == TakeAlong(row.terms, p)
        m1 == TakeAlong(row.masks, p)
        pos_margin_sums == FloatCumSum(PosPart(s1))
        neg_margin_sums == FloatCumSum(NegPart(s1))
        mag_margin_sums == [i \in 1..Len(s1) |->
                               Max2(pos_margin_sums[i], Abs(neg_margin_sums[i]))]
        \* mag >= abs_range * (1 - completeness)
        threshold_mask == [i \in 1..Len(s1) |->
                              mag_margin_sums[i] * ComplDen >= abs_range * (ComplDen - cn)]
        m2 == [i \in 1..Len(s1) |-> threshold_mask[i] \/ m1[i]]
    IN FilterRow(Flip(c1), Flip(s1), Flip(t1), Flip(m2))

\* a count phase that compares the margin with total * completeness
_partial_filter_by_count_swapped(row, cn, p) ==
    LET total == SeqSum(row.counts)
        c1 == TakeAlong(row.counts, p)
        margin_counts == CumSum(c1)
        m1 == TakeAlong(row.masks, p)
        m2 == [i \in 1..Len(c1) |-> margin_counts[i] * ComplDen >= total * cn \/ m1[i]]
    IN FilterRow(Flip(c1), Flip(TakeAlong(row.sums, p)), Flip(TakeAlong(row.terms, p)), Flip(m2))

\* a count phase that sorts counts, sums and terms and leaves the masks of
\* the first phase where they were
_partial_filter_by_count_unattached(row, cn, p) ==
    LET total == SeqSum(row.counts)
        c1 == TakeAlong(row.counts, p)
        margin_counts == CumSum(c1)
        m2 == [i \in 1..Len(c1) |->
                  margin_counts[i] * ComplDen >= total * (ComplDen - cn) \/ row.masks[i]]
    IN FilterRow(Flip(c1), Flip(TakeAlong(row.sums, p)), Flip(TakeAlong(row.terms, p)), Flip(m2))

\* _partial_filter_by_count on one position; p is the argsort of counts
_partial_filter_by_count(row, cn, p) ==
    LET total == SeqSum(row.counts)
        c1 == TakeAlong(row.counts, p)
        s1 == TakeAlong(row.sums, p)
        t1 == TakeAlong(row.terms, p)
        m1 == TakeAlong(row.masks, p)
        margin_counts == CumSum(c1)
        \* margin >= total * (1 - completeness)
        threshold_mask == [i \in 1..Len(c1) |->
                              margin_counts[i] * ComplDen >= total * (ComplDen - cn)]
        m2 == [i \in 1..Len(c1) |-> threshold_mask[i] \/ m1[i]]
    IN FilterRow(Flip(c1), Flip(s1), Flip(t1), Flip(m2))

\* counts * masks, with the sums left as they are
ApplyMasks_counts(row) ==
    FilterRow([i \in 1..Len(row.counts) |-> row.counts[i] * BoolNum(row.masks[i])],
              row.sums, row.terms, row.masks)

\* counts * masks, sums * masks
ApplyMasks(row) ==
    FilterRow([i \in 1..Len(row.counts) |-> row.counts[i] * BoolNum(row.masks[i])],
              [i \in 1..Len(row.sums) |-> row.sums[i] * BoolNum(row.masks[i])],
              row.terms, row.masks)

\* no final sort
FinalSort_none(row, p) == row

\* the final sort of filter_classifications; p is the argsort of -counts
FinalSort(row, p) ==
    FilterRow(TakeAlong(row.counts, p), TakeAlong(row.sums, p),
              TakeAlong(row.terms, p), TakeAlong(row.masks, p))

\* The result at one position together with what the call went through:
\* sum_order and count_order are the terms in the order the two phases
\* sorted them (ascending), sum_marks the masks after the first phase in
\* the order of sum_order, masks the final masks in the order returned.
FilterTrace(row, sum_order, sum_marks, count_order) ==
    [counts |-> row.counts, sums |-> row.sums, terms |-> row.terms, masks |-> row.masks,
     sum_order |-> sum_order, sum_marks |-> sum_marks, count_order |-> count_order]

\* the rest of filter_classifications at one position after the first
\* phase, when the second phase sorts the counts by p2
FilterRowAfterCount(r1, cn, sum_order, p2) ==
    LET r2 == ApplyMasks(_partial_filter_by_count(r1, cn, p2))
    IN {FilterTrace(FinalSort(r2, p3), sum_order, Flip(r1.masks), TakeAlong(r1.terms, p2))
          : p3 \in SortOrders(Negated(r2.counts))}

\* the rest of filter_classifications at one position after the first phase
FilterRowAfterSum(r1, cn, sum_order) ==
    UNION {FilterRowAfterCount(r1, cn, sum_order, p2) : p2 \in SortOrders(r1.counts)}

\* what filter_classifications may return at one position
FilterRowOutcomes(crow, srow, trow, cn) ==
    LET start == FilterRow(crow, srow, trow, [i \in 1..Len(crow) |-> FALSE])
    IN UNION {FilterRowAfterSum(_partial_filter_by_sum(start, cn, p1), cn,
                                TakeAlong(trow, p1))
                : p1 \in SortOrders(AbsAll(srow))}

\* the permutation that takes the terms of row into the given order
OrderAs(row, order) == [i \in 1..Len(order) |-> CHOOSE k \in 1..Len(row) : row[k] = order[i]]

\* what filter_classifications may return at one position when its two
\* phases sort the terms into sum_order and into count_order
FilterRowOrdered(crow, srow, trow, cn, sum_order, count_order) ==
    LET start == FilterRow(crow, srow, trow, [i \in 1..Len(crow) |-> FALSE])
        r1 == _partial_filter_by_sum(start, cn, OrderAs(trow, sum_order))
    IN FilterRowAfterCount(r1, cn, sum_order, OrderAs(r1.terms, count_order))

\* one outcome per position
RECURSIVE FilterOutcomes(_, _, _, _)
FilterOutcomes(c, s, t, cn) ==
    IF c = <<>> THEN {<<>>}
    ELSE {<<h>> \o rest : h \in FilterRowOutcomes(Head(c), Head(s), Head(t), cn),
                          rest \in FilterOutcomes(Tail(c), Tail(s), Tail(t), cn)}

\* one outcome per position, as (counts, sums, terms)
RECURSIVE FilterResults(_, _, _, _)
FilterResults(c, s, t, cn) ==
    IF c = <<>> THEN {<<>>}
    ELSE {<<h>> \o rest
             : h \in {[counts |-> r.counts, sums |-> r.sums, terms |-> r.terms]
                        : r \in FilterRowOutcomes(Head(c), Head(s), Head(t), cn)},
               rest \in FilterResults(Tail(c), Tail(s), Tail(t), cn)}

Column(rows, f) == [i \in 1..Len(rows) |-> rows[i][f]]

\* np.tile of the term list over the value shape
TileTerms(tl, n) == [i \in 1..n |-> tl]

\* filter_classifications(counts, sums, completeness), each result with the
\* masks and the sort orders of the call that gave it
filter_classifications_traced(c, s, cn) ==
    LET tl == classify_terms(Len(c[1]))
    IN IF tl.status # "ok"
       THEN {[status |-> tl.status, counts |-> <<>>, sums |-> <<>>, terms |-> <<>>,
              masks |-> <<>>, sum_order |-> <<>>, sum_marks |-> <<>>, count_order |-> <<>>]}
       ELSE {[status |-> "ok", counts |-> Column(rows, "counts"),
              sums |-> Column(rows, "sums"), terms |-> Column(rows, "terms"),
              masks |-> Column(rows, "masks"), sum_order |-> Column(rows, "sum_order"),
              sum_marks |-> Column(rows, "sum_marks"),
              count_order |-> Column(rows, "count_order")]
                : rows \in FilterOutcomes(c, s, TileTerms(tl.terms, Len(c)), cn)}

\* filter_classifications(counts, sums, completeness): the set of results
\* (counts, sums, terms), or the error of classify_terms
filter_classifications(c, s, cn) ==
    LET tl == classify_terms(Len(c[1]))
    IN IF tl.status # "ok"
       THEN {[status |-> tl.status, counts |-> <<>>, sums |-> <<>>, terms |-> <<>>]}
       ELSE {[status |-> "ok", counts |-> Column(rows, "counts"),
              sums |-> Column(rows, "sums"), terms |-> Column(rows, "terms")]
                : rows \in FilterResults(c, s, TileTerms(tl.terms, Len(c)), cn)}

------------------------------------------------------------------------------
(* standardize and its helpers.  A result that depends on how an argsort   *)
(* breaks ties is a set of results.                                        *)

Shape(a) == <<Len(a), Len(a[1])>>

\* a mask that has an entry for every position, and maybe more
MaskCovers(m, a) == Len(m) >= Len(a)

\* mask.shape == counts.shape[:-1]
MaskFits(m, a) == Len(m) = Len(a)

\* the plain argsort of a, without the reference's meta-order
_fixargsort_plain(a, reference) == SortOrders(LabelKeys(a))

\* _fixargsort(a, reference) on one position: the index sequences it may return
_fixargsort(a, reference) ==
    LET ref_orders == SortOrders(LabelKeys(reference))
        ref_meta_orders == UNION {SortOrders(r) : r \in ref_orders}
        a_orders == SortOrders(LabelKeys(a))
    IN {TakeAlong(a_order, ref_meta_order) :
            a_order \in a_orders, ref_meta_order \in ref_meta_orders}

\* the reordered positions _standardize_order may produce
RECURSIVE OrderOutcomes(_, _, _, _)
OrderOutcomes(c, s, t, terms_list) ==
    IF c = <<>> THEN {<<>>}
    ELSE {<<FilterRow(TakeAlong(Head(c), sort_order), TakeAlong(Head(s), sort_order),
                      TakeAlong(Head(t), sort_order), <<>>)>> \o rest :
              sort_order \in _fixargsort(Head(t), terms_list),
              rest \in OrderOutcomes(Tail(c), Tail(s), Tail(t), terms_list)}

\* _standardize_order(counts, sums, terms): the set of results
_standardize_order(c, s, t) ==
    IF Shape(c) # Shape(s) \/ Shape(t) # Shape(c)
    THEN {[status |-> "ValueError", counts |-> <<>>, sums |-> <<>>, terms |-> <<>>]}
    ELSE LET tl == classify_terms(Len(c[1]))
         IN IF tl.status # "ok"
            THEN {[status |-> tl.status, counts |-> <<>>, sums |-> <<>>, terms |-> <<>>]}
            ELSE {[status |-> "ok", counts |-> Column(rows, "counts"),
                   sums |-> Column(rows, "sums"), terms |-> Column(rows, "terms")]
                     : rows \in OrderOutcomes(c, s, t, tl.terms)}

\* counts * mask[..., np.newaxis]
MaskPositions(a, m) == [i \in 1..Len(a) |-> [k \in 1..Len(a[i]) |-> a[i][k] * BoolNum(m[i])]]

\* standardize(counts, sums, terms, mask=m, return_terms_as_list=as_list):
\* terms and m are None or Some(array); the set of results
standardize(c, s, t, m, as_list) ==
    IF \/ Shape(c) # Shape(s)
       \/ (t # None /\ Shape(t[1]) # Shape(c))
       \/ (m # None /\ ~MaskFits(m[1], c))
    THEN {[status |-> "ValueError", counts |-> <<>>, sums |-> <<>>, terms |-> <<>>]}
    ELSE LET ordered == IF t # None THEN _standardize_order(c, s, t[1])
                        ELSE {[status |-> "ok", counts |-> c, sums |-> s, terms |-> <<>>]}
             tl == classify_terms(Len(c[1]))
         IN {IF o.status # "ok" \/ tl.status # "ok"
             THEN [status |-> "ValueError", counts |-> <<>>, sums |-> <<>>, terms |-> <<>>]
             ELSE [status |-> "ok",
                   counts |-> IF m = None THEN o.counts ELSE MaskPositions(o.counts, m[1]),
                   sums |-> IF m = None THEN o.sums ELSE MaskPositions(o.sums, m[1]),
                   terms |-> IF as_list THEN tl.terms
                             ELSE IF t # None THEN o.terms
                             ELSE TileTerms(tl.terms, Len(c))]
               : o \in ordered}

------------------------------------------------------------------------------
(* Specification of the filter: the classification of one position with    *)
(* three terms is filtered, and the filtered result is standardized.       *)

MaxCount == 2
MaxSum == 2
FilterRows(lo, hi) == [1..Len(TermsOne) -> lo..hi]
FilterCounts == {<<r>> : r \in FilterRows(0, MaxCount)}
FilterSums == {<<r>> : r \in FilterRows(-MaxSum, MaxSum)}

FilterFrame ==
    UNCHANGED <<x, y, confidence, thresholds, return_thresholds, counts, sums, terms,
                mask, max_groups>>

FilterClassifications ==
    /\ Idle
    /\ \E cn \in Completenesses :
          /\ completeness' = cn
          /\ out' \in filter_classifications(counts, sums, cn)
    /\ op' = "filter_classifications"
    /\ FilterFrame

\* standardize(filter_classifications(counts, sums, completeness))
StandardizeFiltered ==
    /\ op = "filter_classifications"
    /\ out.status = "ok"
    /\ \E r \in standardize(out.counts, out.sums, Some(out.terms), None, TRUE) :
          out' = [status |-> r.status, counts |-> r.counts, sums |-> r.sums,
                  terms |-> r.terms, given |-> out]
    /\ op' = "standardize"
    /\ completeness' = completeness
    /\ FilterFrame

InitFilter ==
    /\ op = "none"
    /\ x = Unused /\ y = Unused
    /\ confidence = 0
    /\ thresholds = Unused
    /\ return_thresholds = FALSE
    /\ counts \in FilterCounts
    /\ sums \in FilterSums
    /\ terms = Unused
    /\ mask = Unused
    /\ completeness = 0
    /\ max_groups = Unused
    /\ out = Unused

NextFilter == FilterClassifications \/ StandardizeFiltered

SpecFilter == InitFilter /\ [][NextFilter]_vars

------------------------------------------------------------------------------
(* Claims about the filter.                                                *)

\* max(total of the positive entries, |total of the negative entries|)
SumMagnitude(row) == Max2(SeqSum(PosPart(row)), Abs(SeqSum(NegPart(row))))

Filtered == op = "filter_classifications" /\ out.status = "ok"

\* C4: for counts >= 0, any sums and any completeness c, at every position
\* of the result of filter_classifications the retained sum-magnitude is at
\* least c * abs_range of the original sums at that position, and the total
\* of the retained counts is at least c * the total of the original counts.
C4_FilterCoverage ==
    Filtered =>
        \A pos \in 1..Len(counts) :
            /\ SumMagnitude(out.sums[pos]) * ComplDen >= completeness * SumMagnitude(sums[pos])
            /\ SeqSum(out.counts[pos]) * ComplDen >= completeness * SeqSum(counts[pos])

\* a partial completeness discards a term that had a count and a sum, and
\* keeps another
C4_Witness ==
    /\ Filtered
    /\ completeness > 0 /\ completeness < ComplDen
    /\ \E k \in 1..Len(TermsOne) : out.counts[1][k] = 0 /\ out.sums[1][k] = 0
    /\ \E k \in 1..Len(TermsOne) : out.counts[1][k] > 0 /\ out.sums[1][k] # 0
    /\ SeqSum(out.counts[1]) < SeqSum(counts[1])
    /\ SumMagnitude(out.sums[1]) < SumMagnitude(sums[1])

\* C5: standardize applied to the result of filter_classifications returns
\* arrays in canonical term order where, at every position and for every
\* term, count and sum are the original count and sum of that term or are
\* both zero; no value moves to another term's slot.
C5_RoundTripOrder ==
    (op = "standardize" /\ out.status = "ok") =>
        /\ out.terms = classify_terms(Len(counts[1])).terms
        /\ \A pos \in 1..Len(counts) : \A k \in 1..Len(counts[pos]) :
              \/ out.counts[pos][k] = counts[pos][k] /\ out.sums[pos][k] = sums[pos][k]
              \/ out.counts[pos][k] = 0 /\ out.sums[pos][k] = 0

\* the filter had reordered the terms and dropped one; the terms differ in
\* count and in sum, so a value in the wrong slot would show
C5_Witness ==
    /\ op = "standardize" /\ out.status = "ok"
    /\ out.given.terms[1] # TermsOne
    /\ \A j, k \in 1..Len(TermsOne) :
          j # k => counts[1][j] # counts[1][k] /\ sums[1][j] # sums[1][k]
    /\ \E k \in 1..Len(TermsOne) : counts[1][k] > 0 /\ out.counts[1][k] = 0
    /\ \E k \in 1..Len(TermsOne) : out.counts[1][k] > 0 /\ out.sums[1][k] # 0

\* the slot of the term l in the input of the filter (canonical order)
CanonicalSlot(l) == CHOOSE k \in 1..Len(TermsOne) : TermsOne[k] = l
InCount(pos, l) == counts[pos][CanonicalSlot(l)]
InSum(pos, l) == sums[pos][CanonicalSlot(l)]
Slots == 1..Len(TermsOne)

\* C21: in the terms returned by filter_classifications the labels of every
\* position are a permutation of the canonical term list, and every slot
\* holds either the count and the sum of its term or zero for both.
C21_FilterKeepsLabels ==
    Filtered =>
        \A pos \in 1..Len(counts) :
            /\ Len(out.terms[pos]) = Len(TermsOne)
            /\ \A l \in {TermsOne[k] : k \in Slots} :
                  Cardinality({k \in Slots : out.terms[pos][k] = l}) = 1
            /\ \A k \in Slots :
                  <<out.counts[pos][k], out.sums[pos][k]>> \in
                      {<<InCount(pos, out.terms[pos][k]), InSum(pos, out.terms[pos][k])>>,
                       <<0, 0>>}

\* the terms were reordered and a term with a count and a sum was zeroed
C21_Witness ==
    /\ Filtered
    /\ out.terms[1] # TermsOne
    /\ \E k \in Slots :
          /\ out.counts[1][k] = 0 /\ out.sums[1][k] = 0
          /\ InCount(1, out.terms[1][k]) > 0 /\ InSum(1, out.terms[1][k]) # 0

\* C22: the counts returned by filter_classifications are non-increasing
\* along the terms at every position, and one permutation of the slots
\* gives the counts, the sums and the terms of the position.
C22_FilterOutputOrder ==
    Filtered =>
        \A pos \in 1..Len(counts) :
            /\ \A k \in 1..(Len(TermsOne) - 1) :
                  out.counts[pos][k] >= out.counts[pos][k + 1]
            /\ \E p \in PermSeqs(Len(TermsOne)) :
                  /\ out.terms[pos] = TakeAlong(TermsOne, p)
                  /\ \A k \in Slots :
                        /\ out.counts[pos][k] \in {counts[pos][p[k]], 0}
                        /\ out.sums[pos][k] \in {sums[pos][p[k]], 0}

\* a kept term stands before a zeroed term that had the larger count
C22_Witness ==
    /\ Filtered
    /\ \E j, k \in Slots :
          /\ j < k
          /\ out.counts[1][j] > 0
          /\ out.counts[1][k] = 0
          /\ InCount(1, out.terms[1][k]) > InCount(1, out.terms[1][j])

\* C23: at a position where no term has a nonzero sum, or where the total
\* count is 0, filter_classifications zeroes no term, whatever the
\* completeness and the other quantity are.
C23_FilterZeroEdge ==
    Filtered =>
        \A pos \in 1..Len(counts) :
            (SumMagnitude(sums[pos]) = 0 \/ SeqSum(counts[pos]) = 0) =>
                \A k \in Slots :
                    /\ out.counts[pos][k] = InCount(pos, out.terms[pos][k])
                    /\ out.sums[pos][k] = InSum(pos, out.terms[pos][k])

\* all sums are zero, the counts differ and the completeness is 0
C23_Witness ==
    /\ Filtered
    /\ completeness = 0
    /\ SumMagnitude(sums[1]) = 0
    /\ \E j, k \in Slots : counts[1][j] > counts[1][k] /\ counts[1][k] > 0

------------------------------------------------------------------------------
(* group_classifications.  The value shape is flattened: position i of the *)
(* arrays is flattened position i - 1.  Besides the three lists the code   *)
(* returns, the result records for every group the flattened positions of  *)
(* its rows (position_groups), which the code does not return.             *)

RECURSIVE Pow(_, _)
Pow(b, e) == IF e = 0 THEN 1 ELSE b * Pow(b, e - 1)

\* term_number_lookup[term]
TermNumber(l, terms_list) == CHOOSE i \in 1..Len(terms_list) : terms_list[i] = l

\* the grouping value of one position
GroupingValue(crow, trow, terms_list) ==
    LET n == Len(terms_list)
        term_numbers == [k \in 1..Len(crow) |->
                            IF crow[k] = 0 THEN 0 ELSE TermNumber(trow[k], terms_list)]
        term_scales == [k \in 1..n |-> Pow(n, n - k)]
    IN SeqSum([k \in 1..n |-> term_numbers[k] * term_scales[k]])

RECURSIVE StableOrderOf(_, _)
StableOrderOf(keys, remaining) ==
    IF remaining = {} THEN <<>>
    ELSE LET i == CHOOSE a \in remaining : \A b \in remaining :
                      keys[a] < keys[b] \/ (keys[a] = keys[b] /\ a <= b)
         IN <<i>> \o StableOrderOf(keys, remaining \ {i})

\* a sort that puts the later of two equal keys first
RECURSIVE LastFirstOrderOf(_, _)
LastFirstOrderOf(keys, remaining) ==
    IF remaining = {} THEN <<>>
    ELSE LET i == CHOOSE a \in remaining : \A b \in remaining :
                      keys[a] < keys[b] \/ (keys[a] = keys[b] /\ a >= b)
         IN <<i>> \o LastFirstOrderOf(keys, remaining \ {i})
LastFirstSortOrder(keys) == LastFirstOrderOf(keys, 1..Len(keys))

\* np.argsort(keys, kind='stable')
StableSortOrder(keys) == StableOrderOf(keys, 1..Len(keys))

RECURSIVE Dedup(_)
Dedup(s) ==
    IF Len(s) <= 1 THEN s
    ELSE IF s[1] = s[2] THEN Dedup(Tail(s)) ELSE <<s[1]>> \o Dedup(Tail(s))

\* np.unique(vals): the distinct values, ascending
Unique(vals) == Dedup(SortAsc(vals))

Indices(n) == [i \in 1..n |-> i]

\* the flattened positions a mask selects, in order
Selected(n, m) ==
    IF m = None THEN Indices(n) ELSE SelectSeq(Indices(n), LAMBDA i : m[1][i])

GroupError == [status |-> "ValueError", count_groups |-> <<>>, sum_groups |-> <<>>,
               term_groups |-> <<>>, position_groups |-> <<>>]

\* group_classifications(counts, sums, terms, mask); terms and mask are
\* None or Some(array)
group_classifications(c, s, t, m) ==
    IF \/ Shape(c) # Shape(s)
       \/ (t # None /\ Shape(t[1]) # Shape(c))
       \/ (m # None /\ ~MaskFits(m[1], c))
    THEN GroupError
    ELSE
    LET tl == classify_terms(Len(c[1]))
        sel == Selected(Len(c), m)
    IN IF tl.status # "ok" THEN GroupError
       \* np.vectorize refuses an input of size 0
       ELSE IF sel = <<>> THEN GroupError
       ELSE
       LET all_terms == IF t = None THEN TileTerms(tl.terms, Len(c)) ELSE t[1]
           n == Len(sel)
           grouping_values == [i \in 1..n |->
                                  GroupingValue(c[sel[i]], all_terms[sel[i]], tl.terms)]
           unique_grouping_values == Unique(grouping_values)
           grouping_value_counts ==
               [u \in 1..Len(unique_grouping_values) |->
                   Cardinality({i \in 1..n : grouping_values[i] = unique_grouping_values[u]})]
           sorted_unique == TakeAlong(unique_grouping_values,
                                      StableSortOrder(Negated(grouping_value_counts)))
           sortable_ids == [i \in 1..n |->
                               CHOOSE g \in 1..Len(sorted_unique) :
                                   sorted_unique[g] = grouping_values[i]]
           sort_order == StableSortOrder(sortable_ids)
           sorted_values == TakeAlong(grouping_values, sort_order)
           \* np.where(np.diff(grouping_values) != 0)[0] + 1, with the start of
           \* the first group in front
           starts == SelectSeq(Indices(n),
                               LAMBDA i : i = 1 \/ sorted_values[i] # sorted_values[i - 1])
           GroupEnd(g) == IF g < Len(starts) THEN starts[g + 1] - 1 ELSE n
           position_groups == [g \in 1..Len(starts) |->
                                  [j \in 1..(GroupEnd(g) - starts[g] + 1) |->
                                      sel[sort_order[starts[g] + j - 1]]]]
           count_groups == [g \in 1..Len(starts) |->
                               [j \in 1..Len(position_groups[g]) |-> c[position_groups[g][j]]]]
           sum_groups == [g \in 1..Len(starts) |->
                             [j \in 1..Len(position_groups[g]) |-> s[position_groups[g][j]]]]
           term_len(g) == Cardinality({k \in 1..Len(c[1]) :
                              \E j \in 1..Len(count_groups[g]) : count_groups[g][j][k] # 0})
           term_groups == [g \in 1..Len(starts) |->
                              SubSeq(all_terms[position_groups[g][1]], 1, term_len(g))]
       IN [status |-> "ok", count_groups |-> count_groups, sum_groups |-> sum_groups,
           term_groups |-> term_groups, position_groups |-> position_groups]

------------------------------------------------------------------------------
(* summarise with its default flags.  The text is kept as its items: the   *)
(* item [term, count, sum] stands for "term: count = sum", and the items   *)
(* are joined by ", "; text is "<empty>" when the literal is returned.     *)

ColumnTotal(a, k) == SeqSum([i \in 1..Len(a) |-> a[i][k]])

\* summarise(counts, sums, terms, mask=m): the set of results
summarise(c, s, t, m) ==
    UNION {
        IF std.status # "ok"
        THEN {[status |-> std.status, text |-> "", items |-> <<>>]}
        ELSE
        LET n == Len(std.terms)
            counts_by_class == [k \in 1..n |-> ColumnTotal(std.counts, k)]
            sums_by_class == [k \in 1..n |-> ColumnTotal(std.sums, k)]
        IN {LET sort_order == Flip(p)
                listed == SelectSeq(sort_order, LAMBDA k : counts_by_class[k] > 0)
                items == [i \in 1..Len(listed) |->
                             [term |-> std.terms[listed[i]],
                              count |-> counts_by_class[listed[i]],
                              sum |-> sums_by_class[listed[i]]]]
            IN \* np.max of an array without elements
               IF listed = <<>> THEN [status |-> "ValueError", text |-> "", items |-> <<>>]
               ELSE IF items = <<>> THEN [status |-> "ok", text |-> "<empty>", items |-> <<>>]
               ELSE [status |-> "ok", text |-> "items", items |-> items]
              : p \in SortOrders(counts_by_class)}
        : std \in standardize(c, s, t, m, TRUE)}

------------------------------------------------------------------------------
(* Specification of grouping and summary: NPos positions with three terms  *)
(* are grouped or summarised, under an optional mask.  The input is either *)
(* unfiltered (canonical order, terms=None) or has the form the filter     *)
(* returns: counts in descending order with the terms arranged per         *)
(* position.  The sum of a term has the sign of its class and carries the  *)
(* position number.                                                        *)

NPos == 3
Positions == 1..NPos

UnfilteredRows == [1..Len(TermsOne) -> {0, 1}]
FilteredCounts == {<<2, 1, 0>>, <<1, 0, 0>>}
Arrangements == {<<"P", "Z", "N">>, <<"Z", "N", "P">>, <<"N", "P", "Z">>}
FilteredRows == {[counts |-> c, terms |-> t] : c \in FilteredCounts, t \in Arrangements}

TermSign(l) == CASE l = "P" -> 1 [] l = "Z" -> 0 [] l = "N" -> -1
SumsFor(c, t) ==
    [p \in 1..Len(c) |-> [k \in 1..Len(c[p]) |-> TermSign(t[p][k]) * c[p][k] * p]]

GroupInputs ==
    {[counts |-> c, sums |-> SumsFor(c, TileTerms(TermsOne, NPos)), terms |-> None]
        : c \in [Positions -> UnfilteredRows]}
    \cup
    {[counts |-> Column(r, "counts"),
      sums |-> SumsFor(Column(r, "counts"), Column(r, "terms")),
      terms |-> Some(Column(r, "terms"))]
        : r \in [Positions -> FilteredRows]}

Masks == {None} \cup {Some(m) : m \in [Positions -> BOOLEAN]}

\* the frame of a call whose write into term_numbers lands in the terms
\* array of the caller: the labels of the slots without a count are lost
GroupFrame_written ==
    /\ terms' = IF terms = None THEN terms
                ELSE Some([p \in 1..Len(terms[1]) |-> [k \in 1..Len(terms[1][p]) |->
                              IF p <= Len(counts) /\ k <= Len(counts[p]) /\ counts[p][k] = 0
                              THEN "--" ELSE terms[1][p][k]]])
    /\ UNCHANGED <<x, y, confidence, thresholds, return_thresholds, counts, sums, mask>>

\* a call writes into none of the arrays it is given
GroupFrame ==
    UNCHANGED <<x, y, confidence, thresholds, return_thresholds, counts, sums, terms,
                mask>>

GroupClassifications ==
    /\ Idle
    /\ out' = group_classifications(counts, sums, terms, mask)
    /\ op' = "group_classifications"
    /\ UNCHANGED <<completeness, max_groups>>
    /\ GroupFrame

Summarise ==
    /\ Idle
    /\ out' \in summarise(counts, sums, terms, mask)
    /\ op' = "summarise"
    /\ UNCHANGED <<completeness, max_groups>>
    /\ GroupFrame

\* standardize(counts, sums, terms, mask=mask, return_terms_as_list=...)
Standardize ==
    /\ Idle
    /\ \E as_list \in BOOLEAN :
          /\ out' \in standardize(counts, sums, terms, mask, as_list)
          /\ op' = IF as_list THEN "standardize" ELSE "standardize_terms_array"
    /\ UNCHANGED <<completeness, max_groups>>
    /\ GroupFrame

\* Inputs whose shapes do not agree: sums or terms with a position or an
\* entry less than counts, or a mask with a position less or more.  They
\* are made from the inputs whose positions are all alike.
DropLast(a) == SubSeq(a, 1, Len(a) - 1)
DropColumn(a) == [p \in 1..Len(a) |-> DropLast(a[p])]
AlikeInputs == {in \in GroupInputs : \A p \in Positions : in.counts[p] = in.counts[1]}
TermsOf(in) == IF in.terms = None THEN TileTerms(TermsOne, NPos) ELSE in.terms[1]
WholeMasks == {None, Some([p \in Positions |-> TRUE])}
MismatchedInputs ==
    UNION {
        {[counts |-> in.counts, sums |-> DropLast(in.sums), terms |-> in.terms, mask |-> m],
         [counts |-> in.counts, sums |-> DropColumn(in.sums), terms |-> in.terms, mask |-> m],
         [counts |-> in.counts, sums |-> in.sums, terms |-> Some(DropLast(TermsOf(in))), mask |-> m],
         [counts |-> in.counts, sums |-> in.sums, terms |-> Some(DropColumn(TermsOf(in))), mask |-> m],
         [counts |-> in.counts, sums |-> in.sums, terms |-> in.terms,
          mask |-> Some([p \in 1..(NPos - 1) |-> TRUE])],
         [counts |-> in.counts, sums |-> in.sums, terms |-> in.terms,
          mask |-> Some([p \in 1..(NPos + 1) |-> TRUE])]}
        : in \in AlikeInputs, m \in WholeMasks}

InitGroup ==
    /\ op = "none"
    /\ x = Unused /\ y = Unused
    /\ confidence = 0
    /\ thresholds = Unused
    /\ return_thresholds = FALSE
    /\ \/ /\ \E in \in GroupInputs :
                /\ counts = in.counts
                /\ sums = in.sums
                /\ terms = in.terms
          /\ mask \in Masks
       \/ \E in \in MismatchedInputs :
             /\ counts = in.counts
             /\ sums = in.sums
             /\ terms = in.terms
             /\ mask = in.mask
    /\ completeness = 0
    /\ max_groups = Unused
    /\ out = Unused

NextGroup == GroupClassifications \/ Summarise \/ Standardize

SpecGroup == InitGroup /\ [][NextGroup]_vars

------------------------------------------------------------------------------
(* Claims about grouping and summary.                                      *)

Grouped == op = "group_classifications" /\ out.status = "ok"

\* the term labels of the input, position by position
InputTerms == IF terms = None THEN TileTerms(TermsOne, Len(counts)) ELSE terms[1]

SelectedPositions ==
    {p \in 1..Len(counts) : mask = None \/ (p <= Len(mask[1]) /\ mask[1][p])}

Members(g) == {out.position_groups[g][j] : j \in 1..Len(out.position_groups[g])}
GroupOf(p) == CHOOSE g \in 1..Len(out.position_groups) : p \in Members(g)
GroupSize(g) == Len(out.count_groups[g])
FirstMember(g) == CHOOSE p \in Members(g) : \A q \in Members(g) : p <= q

\* the same ordered active-term pattern
SamePattern(p, q) ==
    \A k \in 1..Len(counts[p]) :
        \/ counts[p][k] = 0 /\ counts[q][k] = 0
        \/ counts[p][k] # 0 /\ counts[q][k] # 0 /\ InputTerms[p][k] = InputTerms[q][k]

\* C6: group_classifications places two positions in the same group if and
\* only if they have the same ordered active-term pattern.
C6_GroupSignatureUnique ==
    Grouped =>
        \A p, q \in SelectedPositions : (GroupOf(p) = GroupOf(q)) <=> SamePattern(p, q)

\* C7 as stated: groups are in non-increasing order of size, and of two
\* groups of the same size the one whose first member is earlier in
\* flattened position order comes first.
C7_GroupOrderingFirstEncountered ==
    Grouped =>
        \A g, h \in 1..Len(out.count_groups) :
            g < h => /\ GroupSize(g) >= GroupSize(h)
                     /\ GroupSize(g) = GroupSize(h) => FirstMember(g) < FirstMember(h)

\* the grouping value of the rows of a group
GroupValue(g) ==
    GroupingValue(counts[FirstMember(g)], InputTerms[FirstMember(g)],
                  classify_terms(Len(counts[1])).terms)

\* C7 (amended): groups are in non-increasing order of size, and of two
\* groups of the same size the one with the smaller grouping value comes
\* first, wherever their first members are.
C7_GroupOrdering ==
    Grouped =>
        \A g, h \in 1..Len(out.count_groups) :
            g < h => /\ GroupSize(g) >= GroupSize(h)
                     /\ GroupSize(g) = GroupSize(h) => GroupValue(g) < GroupValue(h)

\* two groups of the same size, the later one holding the earlier position
C7_Witness ==
    /\ Grouped
    /\ \E g, h \in 1..Len(out.count_groups) :
          g < h /\ GroupSize(g) = GroupSize(h) /\ FirstMember(h) < FirstMember(g)

\* the labels of the nonzero-count slots of a position, in slot order
ActiveLabels(p) ==
    LET slots == SelectSeq(Indices(Len(counts[p])), LAMBDA k : counts[p][k] # 0)
    IN [i \in 1..Len(slots) |-> InputTerms[p][slots[i]]]

\* C8: the term-label list of every group is the list of the labels of the
\* nonzero-count slots of the group's first row, in slot order.
C8_GroupTermLabels ==
    Grouped =>
        \A g \in 1..Len(out.term_groups) :
            out.term_groups[g] = ActiveLabels(out.position_groups[g][1])

\* no term has a positive total count over the positions the mask keeps
NoPositiveTotal ==
    \A k \in 1..Len(counts[1]) : \A p \in SelectedPositions : counts[p][k] <= 0

\* C9: when no term has a positive total count after masking, summarise
\* returns the literal "<empty>" and does not fail.
C9_EmptySummary ==
    (op = "summarise" /\ NoPositiveTotal) => (out.status = "ok" /\ out.text = "<empty>")

------------------------------------------------------------------------------
(* classify_terms with its optional arguments, and its specification: one  *)
(* call on no example or on an array of up to NPos positions and up to     *)
(* MaxChannels entries in the last dimension.                              *)

\* classify_terms(example, retain_shape): example is None or Some(array)
classify_terms_of(example, retain_shape) ==
    LET tl == IF example = None THEN [status |-> "ok", terms |-> TermsTwo]
              ELSE classify_terms(Len(example[1][1]))
    IN IF tl.status # "ok" THEN tl
       ELSE IF ~retain_shape THEN tl
       ELSE IF example = None THEN [status |-> "ValueError", terms |-> <<>>]
       ELSE [status |-> "ok", terms |-> TileTerms(tl.terms, Len(example[1]))]

MaxChannels == 10
ExampleArrays ==
    {[p \in 1..n |-> [k \in 1..ch |-> v]] : n \in 1..NPos, ch \in 1..MaxChannels, v \in 0..MaxCount}

\* counts holds the example: an array, or None
ClassifyTerms ==
    /\ Idle
    /\ \E retain_shape \in BOOLEAN :
          /\ out' = classify_terms_of(IF counts = None THEN None ELSE Some(counts), retain_shape)
          /\ op' = IF retain_shape THEN "classify_terms_retain_shape" ELSE "classify_terms"
    /\ UNCHANGED <<x, y, confidence, thresholds, return_thresholds, counts, sums, terms,
                   mask, completeness, max_groups>>

InitTerms ==
    /\ op = "none"
    /\ x = Unused /\ y = Unused
    /\ confidence = 0
    /\ thresholds = Unused
    /\ return_thresholds = FALSE
    /\ counts \in ExampleArrays \cup {None}
    /\ sums = Unused
    /\ terms = Unused
    /\ mask = Unused
    /\ completeness = 0
    /\ max_groups = Unused
    /\ out = Unused

NextTerms == ClassifyTerms

SpecTerms == InitTerms /\ [][NextTerms]_vars

\* C16: classify_terms returns PP,PZ,PN,ZP,ZZ,ZN,NP,NZ,NN in that order when
\* the last dimension of the example is 9 or no example is given, P,Z,N when
\* it is 3, and fails with an error for any other last dimension; with
\* retain_shape=True and no example it fails too.
C16_TermCount ==
    /\ op = "classify_terms" =>
          IF counts = None \/ Len(counts[1]) = 9
          THEN out = [status |-> "ok",
                      terms |-> <<"PP", "PZ", "PN", "ZP", "ZZ", "ZN", "NP", "NZ", "NN">>]
          ELSE IF Len(counts[1]) = 3
          THEN out = [status |-> "ok", terms |-> <<"P", "Z", "N">>]
          ELSE out.status = "ValueError" /\ out.terms = <<>>
    /\ op = "classify_terms_retain_shape" =>
          IF counts = None \/ Len(counts[1]) \notin {3, 9}
          THEN out.status = "ValueError" /\ out.terms = <<>>
          ELSE /\ out.status = "ok"
               /\ Len(out.terms) = Len(counts)
               /\ \A p \in 1..Len(counts) :
                     out.terms[p] = IF Len(counts[1]) = 3 THEN <<"P", "Z", "N">>
                                    ELSE <<"PP", "PZ", "PN", "ZP", "ZZ", "ZN", "NP", "NZ", "NN">>

\* an example with four entries in the last dimension is refused
C16_Witness ==
    /\ op = "classify_terms"
    /\ counts # None
    /\ Len(counts[1]) = 4
    /\ out.status = "ValueError"

------------------------------------------------------------------------------
(* filter_groups, and its specification: the positions of a grouping input *)
(* are grouped (without a mask) and the groups are trimmed.  The coverage  *)
(* is kept as the pair <<retained size, total size>>.                      *)

GroupSizes(count_groups) == [g \in 1..Len(count_groups) |-> Len(count_groups[g])]

\* np.cumsum(sizes)
PrefixSums(sizes) == CumSum(sizes)

\* np.cumsum(sizes[::-1])[::-1]
SuffixSums(sizes) == Flip(CumSum(Flip(sizes)))

\* filter_groups(count_groups, sum_groups, term_groups, completeness,
\* max_groups, return_coverage): completeness and max_groups are None or
\* Some(number)
filter_groups(count_groups, sum_groups, term_groups, c, mg, return_coverage) ==
    LET cn == IF c = None THEN ComplDen ELSE c[1]
        group_sizes == GroupSizes(count_groups)
        total == SeqSum(group_sizes)
        accumed == SuffixSums(group_sizes)
        \* accumed >= total * (1 - completeness)
        survivors == SelectSeq(Indices(Len(group_sizes)),
                               LAMBDA g : accumed[g] * ComplDen >= total * (ComplDen - cn))
        \* "if max_groups and ...": None and 0 are both false
        indices == IF mg # None /\ mg[1] # 0 /\ Len(survivors) > mg[1]
                   THEN SubSeq(survivors, 1, mg[1])
                   ELSE survivors
        coverage == <<SeqSum([i \in 1..Len(indices) |-> group_sizes[indices[i]]]), total>>
    IN [status |-> "ok",
        count_groups |-> [i \in 1..Len(indices) |-> count_groups[indices[i]]],
        sum_groups |-> [i \in 1..Len(indices) |-> sum_groups[indices[i]]],
        term_groups |-> [i \in 1..Len(indices) |-> term_groups[indices[i]]],
        coverage |-> IF return_coverage THEN Some(coverage) ELSE None]

OptCompletenesses == {None} \cup {Some(c) : c \in Completenesses}
OptMaxGroups == {None} \cup {Some(n) : n \in 0..NPos}

\* filter_groups(*group_classifications(counts, sums, terms), ...)
FilterGroups ==
    /\ op = "group_classifications"
    /\ out.status = "ok"
    /\ \E c \in OptCompletenesses, mg \in OptMaxGroups, return_coverage \in BOOLEAN :
          /\ completeness' = IF c = None THEN ComplDen ELSE c[1]
          /\ max_groups' = mg
          /\ LET r == filter_groups(out.count_groups, out.sum_groups, out.term_groups,
                                    c, mg, return_coverage)
             IN out' = [status |-> r.status, count_groups |-> r.count_groups,
                        sum_groups |-> r.sum_groups, term_groups |-> r.term_groups,
                        coverage |-> r.coverage, given |-> out]
    /\ op' = "filter_groups"
    /\ GroupFrame

InitTrim ==
    /\ InitGroup
    /\ mask = None

NextTrim == GroupClassifications \/ FilterGroups

SpecTrim == InitTrim /\ [][NextTrim]_vars

Trimmed == op = "filter_groups" /\ out.status = "ok"

TotalSize(count_groups) == SeqSum(GroupSizes(count_groups))

\* the three lists returned are the first groups of the three lists given
LeadingGroups ==
    /\ Len(out.count_groups) <= Len(out.given.count_groups)
    /\ Len(out.sum_groups) = Len(out.count_groups)
    /\ Len(out.term_groups) = Len(out.count_groups)
    /\ \A i \in 1..Len(out.count_groups) :
          /\ out.count_groups[i] = out.given.count_groups[i]
          /\ out.sum_groups[i] = out.given.sum_groups[i]
          /\ out.term_groups[i] = out.given.term_groups[i]

Survivors ==
    filter_groups(out.given.count_groups, out.given.sum_groups, out.given.term_groups,
                  Some(completeness), None, FALSE)

\* C18: with max_groups = N, for every integer N >= 0, filter_groups returns
\* at most N groups, the first N of those that survive the completeness
\* cut, in their order, the three lists staying parallel.
C18_GroupCap ==
    (Trimmed /\ max_groups # None) =>
        /\ Len(out.count_groups) <= max_groups[1]
        /\ LeadingGroups
        /\ \/ Len(out.count_groups) = max_groups[1]
           \/ Len(out.count_groups) = Len(Survivors.count_groups)

------------------------------------------------------------------------------
(* Claims about the shape checks and the summary, checked under SpecGroup. *)

ShapesDisagree ==
    \/ Shape(counts) # Shape(sums)
    \/ terms # None /\ Shape(terms[1]) # Shape(counts)
    \/ mask # None /\ Len(mask[1]) # Len(counts)

\* C19: standardize, summarise and group_classifications fail with an error
\* and return no result whenever counts and sums differ in shape, or terms
\* is given with another shape than counts, or mask is given with another
\* shape than counts without its last axis.
C19_ShapeMismatchFails ==
    ShapesDisagree =>
        /\ op \in {"standardize", "standardize_terms_array"} =>
              out = [status |-> "ValueError", counts |-> <<>>, sums |-> <<>>, terms |-> <<>>]
        /\ op = "summarise" => out = [status |-> "ValueError", text |-> "", items |-> <<>>]
        /\ op = "group_classifications" => out = GroupError

\* a mask with one position too many is refused by summarise
C19_Witness ==
    /\ op = "summarise"
    /\ Shape(counts) = Shape(sums)
    /\ mask # None
    /\ Len(mask[1]) = Len(counts) + 1
    /\ out.status = "ValueError"

\* the slot that holds the term l at position p of the input
SlotOf(p, l) == CHOOSE k \in 1..Len(counts[p]) : InputTerms[p][k] = l

\* totals of the term l over the positions the mask keeps
TermTotal(a, l) ==
    SeqSum([p \in 1..Len(counts) |->
               IF p \in SelectedPositions THEN a[p][SlotOf(p, l)] ELSE 0])

Summarised == op = "summarise" /\ out.status = "ok"

\* C20: when summarise returns, it lists exactly the terms whose total count
\* over the unmasked positions is above zero, each once, in non-increasing
\* order of that total; the count and the sum shown for a term are the
\* totals of the slots that hold this term in the input.
C20_SummaryOrdering ==
    Summarised =>
        /\ {out.items[i].term : i \in 1..Len(out.items)}
              = {l \in {TermsOne[k] : k \in 1..Len(TermsOne)} : TermTotal(counts, l) > 0}
        /\ \A i, j \in 1..Len(out.items) :
              /\ i # j => out.items[i].term # out.items[j].term
              /\ i < j => out.items[i].count >= out.items[j].count
        /\ \A i \in 1..Len(out.items) :
              /\ out.items[i].count = TermTotal(counts, out.items[i].term)
              /\ out.items[i].sum = TermTotal(sums, out.items[i].term)

\* terms arranged differently at two kept positions, a position masked out,
\* and two terms listed with different totals
C20_Witness ==
    /\ Summarised
    /\ terms # None
    /\ terms[1][1] # terms[1][2]
    /\ mask = Some(<<TRUE, TRUE, FALSE>>)
    /\ Len(out.items) >= 2
    /\ out.items[1].count > out.items[2].count

------------------------------------------------------------------------------
(* Specification of the two phases of the filter: one position with three  *)
(* terms is filtered, and the result is kept with the masks and the sort   *)
(* orders of the call.  The sums include values large enough for their     *)
(* additions to round.                                                     *)

LargeSums == {2 ^ (MantissaBits - 2), 2 ^ MantissaBits - 1}
CoverageSums == {<<r>> : r \in [1..Len(TermsOne) -> {-1, 0, MaxSum} \cup LargeSums]}

\* filter_classifications(counts, sums, completeness), with its trace
FilterTraced ==
    /\ Idle
    /\ \E cn \in Completenesses :
          /\ completeness' = cn
          /\ out' \in filter_classifications_traced(counts, sums, cn)
    /\ op' = "filter_classifications"
    /\ FilterFrame

InitCoverage ==
    /\ op = "none"
    /\ x = Unused /\ y = Unused
    /\ confidence = 0
    /\ thresholds = Unused
    /\ return_thresholds = FALSE
    /\ counts \in FilterCounts
    /\ sums \in CoverageSums
    /\ terms = Unused
    /\ mask = Unused
    /\ completeness = 0
    /\ max_groups = Unused
    /\ out = Unused

NextCoverage == FilterTraced

SpecCoverage == InitCoverage /\ [][NextCoverage]_vars

------------------------------------------------------------------------------
(* Claims about the two phases, checked under SpecCoverage.                *)

\* the place of the term l in an order of terms
PlaceIn(order, l) == CHOOSE i \in 1..Len(order) : order[i] = l

\* the sums, or the counts, of the terms of an order up to its place i
SumsUpTo(order, i) == [j \in 1..i |-> InSum(1, order[j])]
CountsUpTo(order, i) == [j \in 1..i |-> InCount(1, order[j])]

\* the by-sum phase marks the term l: the larger of the cumulative positive
\* sum and the cumulative absolute negative sum, in the order the phase
\* sorted the terms, reaches abs_range * (1 - completeness)
SumRetains(l, cn) ==
    LET upto == SumsUpTo(out.sum_order[1], PlaceIn(out.sum_order[1], l))
        abs_range == Max2(FloatSum(PosPart(sums[1])), Abs(FloatSum(NegPart(sums[1]))))
    IN Max2(FloatSum(PosPart(upto)), Abs(FloatSum(NegPart(upto)))) * ComplDen
          >= abs_range * (ComplDen - cn)

\* the by-count phase marks the term l: the cumulative count, in the order
\* the phase sorted the terms, reaches total_count * (1 - completeness)
CountRetains(l, cn) ==
    SeqSum(CountsUpTo(out.count_order[1], PlaceIn(out.count_order[1], l))) * ComplDen
        >= SeqSum(counts[1]) * (ComplDen - cn)

\* the term in slot k of the result kept its count and its sum
Kept(r, k) ==
    /\ r.masks[1][k]
    /\ r.counts[1][k] = InCount(1, r.terms[1][k])
    /\ r.sums[1][k] = InSum(1, r.terms[1][k])

\* the term in slot k of the result lost its count and its sum
Zeroed(r, k) == ~r.masks[1][k] /\ r.counts[1][k] = 0 /\ r.sums[1][k] = 0

\* C24: a term's count and sum are kept by filter_classifications if and
\* only if the by-sum phase or the by-count phase marks the term; otherwise
\* both are zeroed.
C24_FilterOrCombination ==
    Filtered =>
        \A k \in Slots :
            IF SumRetains(out.terms[1][k], completeness)
                  \/ CountRetains(out.terms[1][k], completeness)
            THEN Kept(out, k)
            ELSE Zeroed(out, k)

\* the by-sum phase alone keeps one term, the by-count phase alone keeps
\* another, a third is zeroed, and the second phase reordered the terms
C24_Witness ==
    /\ Filtered
    /\ out.sum_order[1] # out.count_order[1]
    /\ \E j, k, n \in Slots :
          /\ SumRetains(out.terms[1][j], completeness)
          /\ ~CountRetains(out.terms[1][j], completeness)
          /\ Kept(out, j) /\ out.sums[1][j] # 0
          /\ CountRetains(out.terms[1][k], completeness)
          /\ ~SumRetains(out.terms[1][k], completeness)
          /\ Kept(out, k) /\ out.counts[1][k] # 0
          /\ Zeroed(out, n) /\ InCount(1, out.terms[1][n]) > 0

\* the terms of the largest |sum|, and of the largest count, in the input
MaxSumTerms == {l \in {TermsOne[k] : k \in Slots} :
                   \A k \in Slots : Abs(InSum(1, l)) >= Abs(sums[1][k])}
MaxCountTerms == {l \in {TermsOne[k] : k \in Slots} :
                     \A k \in Slots : InCount(1, l) >= counts[1][k]}
KeptTerms == {out.terms[1][k] : k \in {j \in Slots : Kept(out, j)}}

\* C28: for counts >= 0, any sums and any completeness, filter_classifications
\* retains a term of maximal |sum| and a term of maximal count; a term whose
\* |sum| is above that of a term the by-sum phase marked, or whose count is
\* above that of a term the by-count phase marked, is retained too.
C28_FilterNeverEmpties ==
    Filtered =>
        /\ MaxSumTerms \cap KeptTerms # {}
        /\ MaxCountTerms \cap KeptTerms # {}
        /\ \A l, h \in {TermsOne[k] : k \in Slots} :
              /\ (SumRetains(l, completeness) /\ Abs(InSum(1, h)) > Abs(InSum(1, l)))
                    => h \in KeptTerms
              /\ (CountRetains(l, completeness) /\ InCount(1, h) > InCount(1, l))
                    => h \in KeptTerms

------------------------------------------------------------------------------
(* Specification of two calls of the filter on the same arrays, the second *)
(* with a completeness that is not lower.  np.argsort gives one order for  *)
(* one array, so the second call sorts the sums and the counts as the      *)
(* first call did; the final sort is of the masked counts and may differ.  *)

MonotoneSums == {<<r>> : r \in [1..Len(TermsOne) -> {-1, 0, MaxSum}]}
MonotoneCounts == {<<r>> : r \in [1..Len(TermsOne) -> {0, 1, MaxCount}]}

\* filter_classifications(counts, sums, c2) after filter_classifications(
\* counts, sums, c1), c2 >= c1; given_kept are the terms the first call kept
FilterAgain ==
    /\ op = "filter_classifications"
    /\ out.status = "ok"
    /\ \E cn \in Completenesses :
          /\ cn >= completeness
          /\ completeness' = cn
          /\ \E r \in FilterRowOrdered(counts[1], sums[1], TermsOne, cn,
                                       out.sum_order[1], out.count_order[1]) :
                out' = [status |-> "ok", counts |-> <<r.counts>>, sums |-> <<r.sums>>,
                        terms |-> <<r.terms>>, masks |-> <<r.masks>>,
                        given_kept |-> KeptTerms, given_completeness |-> completeness]
    /\ op' = "filter_classifications_again"
    /\ FilterFrame

InitMonotone ==
    /\ op = "none"
    /\ x = Unused /\ y = Unused
    /\ confidence = 0
    /\ thresholds = Unused
    /\ return_thresholds = FALSE
    /\ counts \in MonotoneCounts
    /\ sums \in MonotoneSums
    /\ terms = Unused
    /\ mask = Unused
    /\ completeness = 0
    /\ max_groups = Unused
    /\ out = Unused

NextMonotone == FilterTraced \/ FilterAgain

SpecMonotone == InitMonotone /\ [][NextMonotone]_vars

FilteredAgain == op = "filter_classifications_again" /\ out.status = "ok"

\* C29: for fixed counts >= 0 and sums and completeness c1 <= c2, every term
\* filter_classifications retains with c1 it retains with c2; with
\* completeness 1 no term is zeroed.
C29_FilterMonotone ==
    /\ FilteredAgain => out.given_kept \subseteq KeptTerms
    /\ ((Filtered \/ FilteredAgain) /\ completeness = ComplDen) =>
          \A k \in Slots : Kept(out, k)

\* the completeness was raised and a term was kept that the first call had
\* zeroed, another is still zeroed; two terms tie in count and in |sum| and
\* the first call kept one of the two
C29_Witness ==
    /\ FilteredAgain
    /\ out.given_completeness < completeness
    /\ out.given_kept # {}
    /\ out.given_kept # KeptTerms
    /\ \E k \in Slots : Zeroed(out, k)
    /\ \E l, h \in {TermsOne[k] : k \in Slots} :
          /\ l # h
          /\ InCount(1, l) = InCount(1, h)
          /\ Abs(InSum(1, l)) = Abs(InSum(1, h))
          /\ l \in out.given_kept
          /\ h \notin out.given_kept

------------------------------------------------------------------------------
(* Specification of the calls that take classification data: NPos          *)
(* positions with three terms, alike in their counts from the second       *)
(* position on, are filtered, standardized, summarised, or grouped and the *)
(* groups filtered.                                                        *)

FrameInputs == {in \in GroupInputs : \A p \in Positions \ {1} : in.counts[p] = in.counts[NPos]}
FrameMasks == {None, Some([p \in Positions |-> p # NPos])}

InitFrame ==
    /\ op = "none"
    /\ x = Unused /\ y = Unused
    /\ confidence = 0
    /\ thresholds = Unused
    /\ return_thresholds = FALSE
    /\ \E in \in FrameInputs :
          /\ counts = in.counts
          /\ sums = in.sums
          /\ terms = in.terms
    /\ mask \in FrameMasks
    /\ completeness = 0
    /\ max_groups = Unused
    /\ out = Unused

NextFrame ==
    \/ FilterClassifications
    \/ GroupClassifications
    \/ FilterGroups
    \/ Standardize
    \/ Summarise

SpecFrame == InitFrame /\ [][NextFrame]_vars

------------------------------------------------------------------------------
(* describe_groups with its default flags, and its specification: the      *)
(* groups that group_classifications returns are described.                *)

\* [terms[i] if i < len(terms) else '--' for i in range(term_count)]
PadTerms(terms_list, term_count) ==
    [i \in 1..term_count |-> IF i <= Len(terms_list) THEN terms_list[i] ELSE "--"]

\* the summaries of the groups, one result of summarise for each group
RECURSIVE GroupSummaries(_, _, _)
GroupSummaries(count_groups, sum_groups, term_groups) ==
    IF count_groups = <<>> THEN {<<>>}
    ELSE LET c == Head(count_groups)
             tl == PadTerms(Head(term_groups), Len(c[1]))
         IN {<<h>> \o rest
                : h \in summarise(c, Head(sum_groups), Some(TileTerms(tl, Len(c))), None),
                  rest \in GroupSummaries(Tail(count_groups), Tail(sum_groups),
                                          Tail(term_groups))}

\* describe_groups(count_groups, sum_groups, term_groups): the set of results;
\* an error of summarise ends the call
describe_groups(count_groups, sum_groups, term_groups) ==
    {LET failed == {g \in 1..Len(ss) : ss[g].status # "ok"}
     IN IF failed = {}
        THEN [status |-> "ok", sizes |-> GroupSizes(count_groups), summaries |-> ss]
        ELSE [status |-> ss[CHOOSE g \in failed : \A h \in failed : g <= h].status,
              sizes |-> <<>>, summaries |-> <<>>]
       : ss \in GroupSummaries(count_groups, sum_groups, term_groups)}

DescribeGroups ==
    /\ op = "group_classifications"
    /\ out.status = "ok"
    /\ \E r \in describe_groups(out.count_groups, out.sum_groups, out.term_groups) :
          out' = [status |-> r.status, sizes |-> r.sizes, summaries |-> r.summaries,
                  given |-> out]
    /\ op' = "describe_groups"
    /\ UNCHANGED <<completeness, max_groups>>
    /\ GroupFrame

NextDescribe == GroupClassifications \/ DescribeGroups

SpecDescribe == InitTrim /\ [][NextDescribe]_vars

\* C26: for every group that group_classifications made of filtered data,
\* with term list L, every entry of the summary describe_groups builds for
\* the group stands under a term of L and shows the total count and the
\* total sum of that term's slot in the group.
C26_DescribeLabelsFaithful ==
    (op = "describe_groups" /\ out.status = "ok" /\ terms # None) =>
        \A g \in 1..Len(out.summaries) :
            \A n \in 1..Len(out.summaries[g].items) :
                \E i \in 1..Len(out.given.term_groups[g]) :
                    /\ out.given.term_groups[g][i] = out.summaries[g].items[n].term
                    /\ out.summaries[g].items[n].count
                          = ColumnTotal(out.given.count_groups[g], i)
                    /\ out.summaries[g].items[n].sum
                          = ColumnTotal(out.given.sum_groups[g], i)

------------------------------------------------------------------------------
(* A further claim about the classify family, checked under Spec.          *)

\* C27: at every output position the 9 counts of matmul_classify add up to
\* the inner dimension k; multiply_classify and tensor_classify have one slot
\* of count 1 and count 0 with sum 0 in all others; and in every classify
\* result a slot of count 0 has sum 0.
C27_CountConservation ==
    Returned =>
        \A i \in 1..Len(out.counts) : \A j \in 1..Len(out.counts[i]) :
            /\ op = "matmul_classify" => SeqSum(out.counts[i][j]) = NumCols(x)
            /\ op \in {"multiply_classify", "tensor_classify"} =>
                  \E k \in 1..Len(out.counts[i][j]) :
                      /\ out.counts[i][j][k] = 1
                      /\ \A n \in 1..Len(out.counts[i][j]) :
                            n # k => out.counts[i][j][n] = 0 /\ out.sums[i][j][n] = 0
            /\ \A k \in 1..Len(out.counts[i][j]) :
                  out.counts[i][j][k] = 0 => out.sums[i][j][k] = 0

\* a matmul over an inner dimension of 2 whose two products fall in
\* different slots, one of them with a sum of 0
C27_Witness ==
    /\ op = "matmul_classify"
    /\ out.status = "ok"
    /\ NumCols(x) = 2
    /\ Cardinality(NonZeroSlots(out.counts[1][1])) = 2
    /\ \E k \in 1..9 : out.counts[1][1][k] = 1 /\ out.sums[1][1][k] = 0

------------------------------------------------------------------------------
(* A further claim about grouping, checked under SpecGroup.                *)

\* the places (group, row) of the result
GroupPlaces ==
    {pl \in (1..Len(out.position_groups)) \X Positions :
        pl[2] <= Len(out.position_groups[pl[1]])}

\* C30: group_classifications puts every selected position in exactly one
\* group, so the group sizes add up to the number of selected positions;
\* each row of a group has the counts and the sums of its input position,
\* and the rows of a group are in the order of their flattened positions.
C30_GroupingPartition ==
    Grouped =>
        /\ \A p \in SelectedPositions :
              Cardinality({pl \in GroupPlaces : out.position_groups[pl[1]][pl[2]] = p}) = 1
        /\ \A pl \in GroupPlaces : out.position_groups[pl[1]][pl[2]] \in SelectedPositions
        /\ SeqSum(GroupSizes(out.count_groups)) = Cardinality(SelectedPositions)
        /\ \A g \in 1..Len(out.count_groups) :
              /\ Len(out.count_groups[g]) = Len(out.position_groups[g])
              /\ Len(out.sum_groups[g]) = Len(out.position_groups[g])
              /\ \A j \in 1..Len(out.position_groups[g]) :
                    /\ out.count_groups[g][j] = counts[out.position_groups[g][j]]
                    /\ out.sum_groups[g][j] = sums[out.position_groups[g][j]]
                    /\ j > 1 => out.position_groups[g][j - 1] < out.position_groups[g][j]

\* the first and the last position are grouped together and the one between
\* them is a group of its own
C30_Witness ==
    /\ Grouped
    /\ out.position_groups = <<<<1, NPos>>, <<2>>>>
    /\ out.sum_groups[1][1] # out.sum_groups[1][2]

====
